---- MODULE Spec2Model ----
(***************************************************************************)
(* Model of pengler's task coordinator (src-tauri/src/task_manager.rs),    *)
(* the single-file optimize command (src-tauri/src/commands/optimizer.rs), *)
(* the import command (src-tauri/src/commands/import.rs) and the parts of  *)
(* the cache store (src-tauri/src/db.rs) they use.                         *)
(***************************************************************************)
EXTENDS Integers, Sequences, FiniteSets, TLC

(***************************************************************************)
(* Bounds of the model.                                                    *)
(***************************************************************************)
\* largest total_files given to create_optimization_task
MaxTotal == 2
\* number of Task objects ever allocated by add_task
MaxTasks == 1
\* number of increment_processed calls each thread makes in SpecInc
Increments == 2
\* number of import_files calls in SpecLib
MaxImports == 2
\* number of Task objects ever allocated in SpecReg
MaxCreated == 3
\* number of TaskManager operations each thread calls in SpecLock
MaxCalls == 2
\* largest rowid of table library_folders in SpecStore
MaxRowId == 3
\* largest rowid of table cache_entries in SpecStore
MaxEntryId == 3
Folders == {"A"}
Workers == {"w1", "w2"}
\* the destination folder of import_files
ImportFolder == "B"

\* a folder next to A whose path begins with the path of A
Sibling == "A2"

\* utils/hash.rs: short_hash keeps the first 16 characters
ShortLen == 16

(***************************************************************************)
(* Content hashes are sequences of hex digits; H1 and H2 are two contents. *)
(***************************************************************************)
Prefix == [i \in 1..ShortLen |-> 10]
H1 == Prefix \o <<1>>
H2 == <<11>> \o Prefix
Hashes == {H1, H2}

\* a short hash that keeps the whole hash
short_hash_whole(full_hash) == full_hash

\* utils/hash.rs short_hash
short_hash(full_hash) ==
    SubSeq(full_hash, 1, IF Len(full_hash) < ShortLen THEN Len(full_hash) ELSE ShortLen)

(***************************************************************************)
(* Paths are records [dir, sub, name, ext]: the root folder, the folders   *)
(* below it, the file stem and the extension.  Names are sequences of      *)
(* characters: a digit stands for itself, other characters for their code. *)
(***************************************************************************)
Path(d, s, n, e) == [dir |-> d, sub |-> s, name |-> n, ext |-> e]
NoPath == Path("", <<>>, <<>>, "")

\* the characters '-' of "%Y-%m-%d" and '_' of "{}_{}.{}"
Dash == 45
Underscore == 95

\* format!("{}", n) of a number: its decimal digits
RECURSIVE Decimal(_)
Decimal(n) == IF n < 10 THEN <<n>> ELSE Decimal(n \div 10) \o <<n % 10>>

\* the same, zero-padded to two digits (%m, %d)
TwoDigits(n) == IF n < 10 THEN <<0, n>> ELSE Decimal(n)

\* the user's media files in library folder A: path, content hash
SourceFiles ==
    { [path |-> Path("A", <<>>, <<1>>, "jpg"), hash |-> H1],
      [path |-> Path("A", <<>>, <<2>>, "jpg"), hash |-> H1] }

\* a file on a card to import from: path, content hash, modification date
ImportSources ==
    { [path |-> Path("card", <<>>, <<1>>, "jpg"), hash |-> H1,
       modified |-> [year |-> 2024, month |-> 3, day |-> 9]] }

\* models/media.rs is_media_file, as used by the callers of the optimizer:
\* format!("{:?}", t).to_lowercase(), or "unknown"
media_type_of(path) ==
    IF path.ext \in {"jpg", "jpeg", "png", "gif", "webp", "heic", "heif"} THEN "image"
    ELSE IF path.ext \in {"mp4", "mov", "avi", "mkv", "webm", "m4v"} THEN "video"
    ELSE "unknown"

\* optimizer.rs optimize_image / optimize_video: the output path
OutputPath(file_hash, media_type) ==
    Path("optimized", <<>>, short_hash(file_hash),
         IF media_type = "image" THEN "webp" ELSE "mp4")

(***************************************************************************)
(* State.                                                                  *)
(***************************************************************************)
VARIABLES
    tasks,            \* every Task allocated so far (Arc<Task>), by allocation index
    registry,         \* TaskManager.tasks: folder path -> index into tasks, 0 = no entry
    ctl,              \* the command holding the registry lock in pause/resume/stop_task
    worker,           \* the optimize_media_file requests in flight
    library_folders,  \* Config.library_folders
    folder_rows,      \* table library_folders: set of [id, path]
    cache_entries,    \* table cache_entries
    disk,             \* files on disk: set of [path, content]
    stop_calls,       \* history: the tasks on which stop_task has succeeded
    imports,          \* history: the number of import_files calls made
    info_lock,        \* Task.info, the Mutex<TaskInfo>: the thread holding it, or "free"
    thread,           \* the threads calling Task::increment_processed in SpecInc
    probe,            \* SpecInc: the count the threads started from, the last get_info
    media_files,      \* table media_files: set of [folder_id, file_path, file_hash]
    last,             \* the last call of a store or registry command: name, arguments, result
    progress,         \* batch_optimize_folder: its BatchOptimizeProgress, the files left
    importing         \* the import_files calls in flight

vars == <<tasks, registry, ctl, worker, library_folders, folder_rows, cache_entries,
          disk, stop_calls, imports, info_lock, thread, probe, media_files, last, progress, importing>>

storeVars == <<library_folders, folder_rows, cache_entries, disk>>

incVars == <<info_lock, thread, probe>>

callVars == <<media_files, last>>

\* what the store's commands leave alone
stateVars == <<tasks, registry, ctl, worker, stop_calls, library_folders, imports, incVars>>
taskVars == <<stateVars, progress, importing>>

\* the command called, its arguments, the value the Database function
\* returned, the number of cache_entries rows the call deleted
Call(op, arg, ret, deleted) == [op |-> op, arg |-> arg, ret |-> ret, deleted |-> deleted]

\* the number of rows a DELETE or REPLACE took out of a table
Deleted(before, after) == Cardinality(before \ after)

\* no call made yet
NoCall == Call("none", <<>>, <<>>, 0)

NoCtl == [op |-> "none", task |-> 0]

\* no thread, no reading
NoThread == [pc |-> "done", left |-> 0, local |-> 0]
NoProbe == [start |-> 0, info |-> 0]
Calls == {"i1", "i2"}
NoImport ==
    [pc |-> "idle", files |-> <<>>, dest |-> "", folder_id |-> 0, final_dest |-> NoPath,
     imported_files |-> <<>>, overwritten |-> {}, contents |-> {}]
NoBatch ==
    [pc |-> "none", entries |-> <<>>, found |-> {}, attempted |-> <<>>,
     total |-> 0, processed |-> 0, optimized |-> 0, cached |-> 0, failed |-> 0]

IdleWorker ==
    [pc |-> "idle", folder_path |-> "", file |-> NoPath, file_hash |-> <<>>,
     media_type |-> "", task |-> 0, folder_id |-> 0, cached_path |-> NoPath, result |-> "Ok",
     log |-> <<>>, transforms |-> 0, fresh |-> FALSE]

(***************************************************************************)
(* task_manager.rs: Task                                                   *)
(***************************************************************************)
\* Task::new
TaskNew(folder_path, total_files) ==
    [folder_path |-> folder_path, total_files |-> total_files,
     processed_files |-> 0, optimized_files |-> 0, failed_files |-> 0,
     status |-> "Running", should_pause |-> FALSE, should_stop |-> FALSE]

increment_processed(t) == [t EXCEPT !.processed_files = @ + 1]
increment_optimized(t) == [t EXCEPT !.optimized_files = @ + 1]
\* a failure that is not counted
failed_uncounted(t) == t
increment_failed(t) == [t EXCEPT !.failed_files = @ + 1]

\* Task::pause, Task::resume, Task::stop: the atomic store to the flag, then
\* the status written under the info lock
pause_store(t) == [t EXCEPT !.should_pause = TRUE]
pause_status(t) == [t EXCEPT !.status = "Paused"]
resume_store(t) == [t EXCEPT !.should_pause = FALSE]
\* a resume that starts the counters afresh
resume_resets(t) == [t EXCEPT !.status = "Running", !.processed_files = 0]
resume_status(t) == [t EXCEPT !.status = "Running"]
stop_store(t) == [t EXCEPT !.should_stop = TRUE]
\* a stop that raises the flag and leaves the status as it was
stop_keeps_status(t) == t
stop_status(t) == [t EXCEPT !.status = "Stopped"]
complete(t) == [t EXCEPT !.status = "Completed"]
is_paused(t) == t.should_pause
is_stopped(t) == t.should_stop

(***************************************************************************)
(* db.rs: the cache store, and the files on disk                           *)
(***************************************************************************)
MaxOf(S) == IF S = {} THEN 0 ELSE CHOOSE m \in S : \A x \in S : x <= m
MinOf(S) == CHOOSE m \in S : \A x \in S : m <= x

\* Database::get_folder_id; 0 stands for None
get_folder_id(path) ==
    LET ids == {r.id : r \in {x \in folder_rows : x.path = path}}
    IN IF ids = {} THEN 0 ELSE MinOf(ids)

\* an INSERT that replaces nothing
insert_folder(rows, path) ==
    rows \cup {[id |-> MaxOf({r.id : r \in rows}) + 1, path |-> path]}

\* Database::add_library_folder: INSERT OR REPLACE under UNIQUE(path); the row
\* it replaces is deleted, the new row gets the next rowid
add_library_folder(rows, path) ==
    {r \in rows : r.path # path}
    \cup {[id |-> MaxOf({r.id : r \in rows}) + 1, path |-> path]}

\* whether the SQLite library the program is built with enforces foreign keys
\* (rusqlite's build switches; the program itself sets no PRAGMA)
foreign_keys == TRUE

\* a schema whose foreign key has no ON DELETE CASCADE
cascade_none(entries, rows, enforced) == entries

\* FOREIGN KEY (folder_id) REFERENCES library_folders(id) ON DELETE CASCADE:
\* with foreign keys enforced, the entries of the deleted folder rows go too
cascade(entries, rows, enforced) ==
    IF enforced THEN {e \in entries : \E r \in rows : r.id = e.folder_id} ELSE entries

\* FOREIGN KEY (folder_id) REFERENCES library_folders(id): with foreign keys
\* enforced, an insert naming a folder_id without a row fails
fk_holds(rows, folder_id, enforced) ==
    enforced => \E r \in rows : r.id = folder_id

\* a lookup that yields the first row of the table, whatever its hash
get_first_path(file_hash) ==
    IF cache_entries = {} THEN NoPath
    ELSE (CHOOSE e \in cache_entries : \A x \in cache_entries : e.id <= x.id).cached_path

\* Database::get_cached_path: query_row yields the first row of
\* SELECT cached_path FROM cache_entries WHERE file_hash = ?1, which the index
\* idx_cache_hash delivers in rowid order; NoPath stands for None
get_cached_path(file_hash) ==
    LET rows == {e \in cache_entries : e.file_hash = file_hash}
    IN IF rows = {} THEN NoPath
       ELSE (CHOOSE e \in rows : \A x \in rows : e.id <= x.id).cached_path

\* Database::add_cache_entry: INSERT OR REPLACE under UNIQUE(folder_id, file_hash)
add_cache_entry(entries, folder_id, original_path, file_hash, cached_path, media_type) ==
    {e \in entries : ~(e.folder_id = folder_id /\ e.file_hash = file_hash)}
    \cup {[id |-> MaxOf({e.id : e \in entries}) + 1, folder_id |-> folder_id,
           original_path |-> original_path, file_hash |-> file_hash,
           cached_path |-> cached_path, media_type |-> media_type]}

\* Path::exists
exists(path) == \E d \in disk : d.path = path

\* a file created or truncated and written
WriteFile(files, path, content) ==
    {d \in files : d.path # path} \cup {[path |-> path, content |-> content]}

\* what optimize_image / optimize_video can do with a source file: write the
\* derivative, fail before touching the output, or fail after creating it
TransformOutcomes == {"ok", "failed", "partial"}
Partial == <<>>

\* TaskManager::get_task
get_task(folder_path) == registry[folder_path]

\* the registry mutex is free (no pause/resume/stop_task is inside it)
RegistryFree == ctl.op = "none"

\* a Task whose last Arc has been dropped
Dropped ==
    [folder_path |-> "", total_files |-> 0,
     processed_files |-> 0, optimized_files |-> 0, failed_files |-> 0,
     status |-> "Dropped", should_pause |-> FALSE, should_stop |-> FALSE]

\* the tasks some Arc still points to: from the registry, from the command
\* inside pause/resume/stop_task, from a worker
Live(reg, c, wk) ==
    ({reg[f] : f \in DOMAIN reg} \cup {c.task} \cup {wk[w].task : w \in Workers}) \ {0}

\* the new task heap, registry, command, workers and history of a step
CommitTasks(ts, reg, c, wk, sc) ==
    /\ tasks' = [i \in DOMAIN ts |-> IF i \in Live(reg, c, wk) THEN ts[i] ELSE Dropped]
    /\ registry' = reg
    /\ ctl' = c
    /\ worker' = wk
    /\ stop_calls' = sc \cap Live(reg, c, wk)
    /\ UNCHANGED <<imports, incVars, importing, callVars>>

\* the same for a step that is not part of a batch
Commit(ts, reg, c, wk, sc) ==
    /\ CommitTasks(ts, reg, c, wk, sc)
    /\ UNCHANGED progress

\* the request each worker serves: the file to optimize
Request(w) ==
    CHOOSE f \in SourceFiles : f.path.name = (IF w = "w1" THEN <<1>> ELSE <<2>>)

Init ==
    /\ tasks = <<>>
    /\ registry = [f \in Folders |-> 0]
    /\ ctl = NoCtl
    /\ worker = [w \in Workers |-> IdleWorker]
    /\ library_folders = {"A"}
    /\ folder_rows = {[id |-> 1, path |-> "A"]}
    /\ cache_entries = {}
    /\ disk = {[path |-> f.path, content |-> f.hash] : f \in SourceFiles \cup ImportSources}
    /\ stop_calls = {}
    /\ imports = 0
    /\ info_lock = "free"
    /\ thread = [w \in Workers |-> NoThread]
    /\ probe = NoProbe
    /\ media_files = {}
    /\ last = NoCall
    /\ progress = NoBatch
    /\ importing = [c \in Calls |-> NoImport]

(***************************************************************************)
(* task_commands.rs / TaskManager: the commands of the shell               *)
(***************************************************************************)
\* a registration that keeps the state of the task it replaces
add_task_kept(folder_path, total_files, most) ==
    /\ RegistryFree
    /\ Len(tasks) < most
    /\ Commit(Append(tasks, IF registry[folder_path] # 0 THEN tasks[registry[folder_path]]
                                                       ELSE TaskNew(folder_path, total_files)),
              [registry EXCEPT ![folder_path] = Len(tasks) + 1], ctl, worker, stop_calls)
    /\ UNCHANGED storeVars

\* create_optimization_task -> TaskManager::add_task, while fewer than `most'
\* tasks have been allocated
add_task_within(folder_path, total_files, most) ==
    /\ RegistryFree
    /\ Len(tasks) < most
    /\ Commit(Append(tasks, TaskNew(folder_path, total_files)),
              [registry EXCEPT ![folder_path] = Len(tasks) + 1], ctl, worker, stop_calls)
    /\ UNCHANGED storeVars

\* create_optimization_task -> TaskManager::add_task
add_task(folder_path, total_files) == add_task_within(folder_path, total_files, MaxTasks)

\* remove_optimization_task -> TaskManager::remove_task
remove_task(folder_path) ==
    /\ RegistryFree
    /\ registry[folder_path] # 0
    /\ Commit(tasks, [registry EXCEPT ![folder_path] = 0], ctl, worker, stop_calls)
    /\ UNCHANGED storeVars

\* TaskManager::pause_task/resume_task/stop_task with a task registered: takes
\* the registry lock and does the flag store of Task::pause/resume/stop
pause_task_begin(folder_path) ==
    /\ RegistryFree
    /\ registry[folder_path] # 0
    /\ tasks' = [tasks EXCEPT ![registry[folder_path]] = pause_store(@)]
    /\ ctl' = [op |-> "pause", task |-> registry[folder_path]]
    /\ UNCHANGED <<registry, worker, storeVars, stop_calls, imports, incVars, progress, importing, callVars>>

resume_task_begin(folder_path) ==
    /\ RegistryFree
    /\ registry[folder_path] # 0
    /\ tasks' = [tasks EXCEPT ![registry[folder_path]] = resume_store(@)]
    /\ ctl' = [op |-> "resume", task |-> registry[folder_path]]
    /\ UNCHANGED <<registry, worker, storeVars, stop_calls, imports, incVars, progress, importing, callVars>>

stop_task_begin(folder_path) ==
    /\ RegistryFree
    /\ registry[folder_path] # 0
    /\ tasks' = [tasks EXCEPT ![registry[folder_path]] = stop_store(@)]
    /\ ctl' = [op |-> "stop", task |-> registry[folder_path]]
    /\ UNCHANGED <<registry, worker, storeVars, stop_calls, imports, incVars, progress, importing, callVars>>

\* second half of Task::pause/resume/stop: the status written under the info
\* lock; the command returns Ok(()) and releases the registry lock
pause_task_end ==
    /\ ctl.op = "pause"
    /\ Commit([tasks EXCEPT ![ctl.task] = pause_status(@)], registry, NoCtl, worker, stop_calls)
    /\ UNCHANGED storeVars

resume_task_end ==
    /\ ctl.op = "resume"
    /\ Commit([tasks EXCEPT ![ctl.task] = resume_status(@)], registry, NoCtl, worker, stop_calls)
    /\ UNCHANGED storeVars

stop_task_end ==
    /\ ctl.op = "stop"
    /\ Commit([tasks EXCEPT ![ctl.task] = stop_status(@)], registry, NoCtl, worker,
              stop_calls \cup {ctl.task})
    /\ UNCHANGED storeVars

\* the commands that change the registry
Registration ==
    \/ \E f \in Folders, n \in 1..MaxTotal : add_task(f, n)
    \/ \E f \in Folders : remove_task(f)

\* the commands that act on a registered task
Signal ==
    \/ \E f \in Folders : pause_task_begin(f)
    \/ \E f \in Folders : resume_task_begin(f)
    \/ \E f \in Folders : stop_task_begin(f)
    \/ pause_task_end
    \/ resume_task_end
    \/ stop_task_end

Control == Registration \/ Signal

(***************************************************************************)
(* commands/optimizer.rs: optimize_media_file and                          *)
(* optimize_media_file_internal, one step per lock acquisition or store    *)
(* access whose order other threads can observe                            *)
(***************************************************************************)
Logged(rec, kind) == [rec EXCEPT !.log = Append(@, <<kind, rec.task>>)]

\* a step of worker w: its new record, the new task heap
Step(w, rec, ts) ==
    Commit(ts, registry, ctl, [worker EXCEPT ![w] = rec], stop_calls)

\* lines 145-153: the folder must still be in Config.library_folders
check_library_folder(rec) ==
    IF rec.folder_path \in library_folders
    THEN [rec EXCEPT !.pc = "get_task"]
    ELSE [rec EXCEPT !.pc = "wrap_get_task", !.result = "FolderRemoved"]

\* the request optimize_media_file(folder_path, file_path, file_hash, media_type)
\* starts: Config::load and the check of the folder
optimize_media_file(w) ==
    /\ worker[w].pc = "idle"
    /\ Step(w, check_library_folder(
                  [worker[w] EXCEPT
                      !.folder_path = Request(w).path.dir,
                      !.file = Request(w).path, !.file_hash = Request(w).hash,
                      !.media_type = media_type_of(Request(w).path)]), tasks)
    /\ UNCHANGED storeVars

\* the request returns to its caller; its history of the call ends
Returned(rec) ==
    [rec EXCEPT !.pc = "done", !.task = 0, !.fresh = FALSE]

\* a get_task of lines 156, 183, 199, 255 and 124: with Some(task) the worker
\* goes to `some', with None past the block to `none'
GetTask(w, here, some, none) ==
    /\ worker[w].pc = here
    /\ RegistryFree
    /\ Step(w, IF get_task(worker[w].folder_path) = 0
               THEN IF none = "done" THEN Returned(worker[w])
                    ELSE [worker[w] EXCEPT !.pc = none]
               ELSE [worker[w] EXCEPT !.pc = some, !.task = get_task(worker[w].folder_path)],
            tasks)
    /\ UNCHANGED storeVars

\* line 156
gate_get_task(w) == GetTask(w, "get_task", "gate", "lookup")

\* a pause check that lets every request through
Passing(t) == FALSE

\* a pause loop that tests the pause flag alone
WaitingPaused(t) == is_paused(t)

\* lines 158-161: the worker sleeps and polls while paused and not stopped
Waiting(t) == is_paused(t) /\ ~is_stopped(t)

\* lines 158-169: leave the pause loop; if stopped, count processed+failed and
\* return the "task was stopped" error
pause_gate(w) ==
    /\ worker[w].pc = "gate"
    /\ ~Waiting(tasks[worker[w].task])
    /\ IF is_stopped(tasks[worker[w].task])
       THEN Step(w, [Logged(Logged(worker[w], "processed"), "failed") EXCEPT
                        !.pc = "wrap_get_task", !.result = "TaskStopped", !.task = 0],
                 [tasks EXCEPT ![worker[w].task] = increment_failed(increment_processed(@))])
       ELSE Step(w, [worker[w] EXCEPT !.pc = "lookup", !.task = 0], tasks)
    /\ UNCHANGED storeVars

\* lines 177-196: already optimized? get_cached_path and Path::exists
check_cached(w) ==
    /\ worker[w].pc = "lookup"
    /\ LET cp == get_cached_path(worker[w].file_hash) IN
       Step(w, IF cp # NoPath /\ exists(cp)
               THEN [worker[w] EXCEPT !.pc = "sc_get_task", !.cached_path = cp]
               ELSE [worker[w] EXCEPT !.pc = "tp_get_task", !.fresh = (cp = NoPath)], tasks)
    /\ UNCHANGED storeVars

\* line 183
cached_get_task(w) == GetTask(w, "sc_get_task", "sc_inc", "done")

\* lines 184-185: increment_processed, increment_optimized
cached_count(w) ==
    /\ worker[w].pc = "sc_inc"
    /\ Step(w, [Logged(Logged(worker[w], "processed"), "optimized") EXCEPT !.pc = "sc_check"],
            [tasks EXCEPT ![worker[w].task] = increment_optimized(increment_processed(@))])
    /\ UNCHANGED storeVars

\* lines 188-190 and 259-261: get_info, then complete when processed_files >= total_files
CompleteIfDone(t) == IF t.processed_files >= t.total_files THEN complete(t) ELSE t

\* lines 187-193: completion check
cached_check_complete(w) ==
    /\ worker[w].pc = "sc_check"
    /\ Step(w, Returned(worker[w]),
            [tasks EXCEPT ![worker[w].task] = CompleteIfDone(@)])
    /\ UNCHANGED storeVars

\* line 199
processing_get_task(w) == GetTask(w, "tp_get_task", "tp_inc", "transform")

\* line 200: increment_processed
processing_count(w) ==
    /\ worker[w].pc = "tp_inc"
    /\ Step(w, [Logged(worker[w], "processed") EXCEPT !.pc = "transform", !.task = 0],
            [tasks EXCEPT ![worker[w].task] = increment_processed(@)])
    /\ UNCHANGED storeVars

\* lines 203-220: optimize_image / optimize_video / unsupported media type
transform(w, outcome) ==
    /\ worker[w].pc = "transform"
    /\ LET out == OutputPath(worker[w].file_hash, worker[w].media_type)
           supported == worker[w].media_type \in {"image", "video"}
           readable == exists(worker[w].file)
       IN
       IF supported /\ readable /\ outcome = "ok"
       THEN /\ disk' = WriteFile(disk, out, worker[w].file_hash)
            /\ Step(w, [worker[w] EXCEPT !.pc = "folder_id", !.cached_path = out,
                                         !.transforms = @ + 1], tasks)
       ELSE /\ disk' = IF supported /\ readable /\ outcome = "partial"
                       THEN WriteFile(disk, out, Partial) ELSE disk
            /\ Step(w, [worker[w] EXCEPT
                            !.pc = "wrap_get_task",
                            !.transforms = IF supported THEN @ + 1 ELSE @,
                            !.result = IF supported THEN "TransformFailed"
                                       ELSE "UnsupportedMediaType"], tasks)
    /\ UNCHANGED <<library_folders, folder_rows, cache_entries>>

\* lines 224-235: only an existing folder_id is used
lookup_folder_id(w) ==
    /\ worker[w].pc = "folder_id"
    /\ LET id == get_folder_id(worker[w].folder_path) IN
       Step(w, IF id = 0
               THEN [worker[w] EXCEPT !.pc = "wrap_get_task", !.result = "FolderNotRegistered"]
               ELSE [worker[w] EXCEPT !.pc = "register", !.folder_id = id], tasks)
    /\ UNCHANGED storeVars

\* lines 237-250: fs::metadata(source_path), db.add_cache_entry
register_entry(w) ==
    /\ worker[w].pc = "register"
    /\ IF ~exists(worker[w].file)
       THEN /\ cache_entries' = cache_entries
            /\ Step(w, [worker[w] EXCEPT !.pc = "wrap_get_task", !.result = "Io"], tasks)
       ELSE IF ~fk_holds(folder_rows, worker[w].folder_id, foreign_keys)
       THEN /\ cache_entries' = cache_entries
            /\ Step(w, [worker[w] EXCEPT !.pc = "wrap_get_task", !.result = "Db"], tasks)
       ELSE /\ cache_entries' = add_cache_entry(cache_entries, worker[w].folder_id,
                                    worker[w].file, worker[w].file_hash,
                                    worker[w].cached_path, worker[w].media_type)
            /\ Step(w, [worker[w] EXCEPT !.pc = "fin_get_task"], tasks)
    /\ UNCHANGED <<library_folders, folder_rows, disk>>

\* line 255
success_get_task(w) == GetTask(w, "fin_get_task", "fin_count", "done")

\* lines 256-263: increment_optimized, completion check
success_count(w) ==
    /\ worker[w].pc = "fin_count"
    /\ Step(w, Returned(Logged(worker[w], "optimized")),
            [tasks EXCEPT ![worker[w].task] = CompleteIfDone(increment_optimized(@))])
    /\ UNCHANGED storeVars

\* optimize_media_file line 124: the Err arm looks the task up again
failure_get_task(w) == GetTask(w, "wrap_get_task", "wrap_count", "done")

\* optimize_media_file line 125: the failure is counted here unless the stop
\* check of the internal function has counted it
counts_always(t) == TRUE
counts_failure(t) == ~is_stopped(t)

\* optimize_media_file lines 125-127: count the failure unless the task is stopped
failure_count(w) ==
    /\ worker[w].pc = "wrap_count"
    /\ IF counts_failure(tasks[worker[w].task])
       THEN Step(w, Returned(Logged(worker[w], "failed")),
                 [tasks EXCEPT ![worker[w].task] = increment_failed(@)])
       ELSE Step(w, Returned(worker[w]), tasks)
    /\ UNCHANGED storeVars

\* the steps of optimize_media_file_internal
InternalStep(w) ==
    \/ gate_get_task(w)
    \/ pause_gate(w)
    \/ check_cached(w)
    \/ cached_get_task(w)
    \/ cached_count(w)
    \/ cached_check_complete(w)
    \/ processing_get_task(w)
    \/ processing_count(w)
    \/ \E o \in TransformOutcomes : transform(w, o)
    \/ lookup_folder_id(w)
    \/ register_entry(w)
    \/ success_get_task(w)
    \/ success_count(w)

\* the steps of a request under way: those of the internal function and the
\* Err arm of optimize_media_file
WorkerStep(w) ==
    \/ InternalStep(w)
    \/ failure_get_task(w)
    \/ failure_count(w)

\* no other request is under way
Quiet(w) == \A v \in Workers \ {w} : worker[v].pc \in {"idle", "done"}

\* requests served by concurrent workers
Next ==
    \/ Control
    \/ \E w \in Workers : optimize_media_file(w)
    \/ \E w \in Workers : WorkerStep(w)

Spec == Init /\ [][Next]_vars

\* a request issued when no other is under way
request_in_turn(w) == Quiet(w) /\ optimize_media_file(w)

\* requests issued one after the other, the shell's commands at any time
NextSeq ==
    \/ Control
    \/ \E w \in Workers : request_in_turn(w)
    \/ \E w \in Workers : WorkerStep(w)

SpecSeq == Init /\ [][NextSeq]_vars

\* a request is a running thread: its next step is taken when it can be; a
\* command inside pause_task / resume_task / stop_task runs to its return
Fairness ==
    /\ \A w \in Workers : WF_vars(WorkerStep(w))
    /\ WF_vars(pause_task_end \/ resume_task_end \/ stop_task_end)

SpecFair == Init /\ [][NextSeq]_vars /\ Fairness

\* every request has returned or not begun
AllReturned == \A w \in Workers : worker[w].pc \in {"idle", "done"}

\* a task created or removed between two requests
registration_in_turn == AllReturned /\ Registration

\* requests issued one after the other and tasks created and removed between
\* them; pause, resume and stop at any time
NextCall ==
    \/ registration_in_turn
    \/ Signal
    \/ \E w \in Workers : request_in_turn(w)
    \/ \E w \in Workers : WorkerStep(w)

SpecCall == Init /\ [][NextCall]_vars

\* the same with running threads
SpecCallFair == Init /\ [][NextCall]_vars /\ Fairness

(***************************************************************************)
(* commands/import.rs: import_files, and the user's own file operations    *)
(***************************************************************************)
\* lines 209-215: the folders Year/YYYY-MM-DD of a modification date
date_folder(modified) ==
    << Decimal(modified.year),
       Decimal(modified.year) \o <<Dash>> \o TwoDigits(modified.month)
           \o <<Dash>> \o TwoDigits(modified.day) >>

\* lines 229-251: the destination, renamed stem_1, stem_2, ... while taken
final_dest(dest, source) ==
    LET folder == date_folder(source.modified)
        renamed(k) == Path(dest, folder, source.path.name \o <<Underscore>> \o Decimal(k),
                           source.path.ext)
    IN IF exists(Path(dest, folder, source.path.name, source.path.ext))
       THEN renamed(MinOf({k \in 1..(Cardinality(disk) + 1) : ~exists(renamed(k))}))
       ELSE Path(dest, folder, source.path.name, source.path.ext)

\* import_files(files, destination_folder) with one file: registers the
\* destination as a library folder, copies the file into its date folder and
\* registers the copy as its own cached file; `enforced' says whether the
\* SQLite build enforces foreign keys
import_files(source, dest, enforced) ==
    /\ imports < MaxImports
    /\ imports' = imports + 1
    /\ LET rows == add_library_folder(folder_rows, dest)
           folder_id == (CHOOSE r \in rows : r.path = dest).id
           entries == cascade(cache_entries, rows, enforced)
           copy == final_dest(dest, source)
       IN /\ folder_rows' = rows
          /\ IF exists(source.path)
             THEN /\ disk' = WriteFile(disk, copy, source.hash)
                  /\ cache_entries' = add_cache_entry(entries, folder_id, copy, source.hash,
                                                      copy, media_type_of(copy))
             ELSE /\ disk' = disk
                  /\ cache_entries' = entries
    /\ UNCHANGED <<tasks, registry, ctl, worker, stop_calls, library_folders, incVars, progress, importing, callVars>>

\* the user deletes a file of the import destination (file_watcher.rs sees it
\* as EventKind::Remove and only emits "file-removed")
file_removed(path) ==
    /\ path.dir = ImportFolder
    /\ exists(path)
    /\ disk' = {d \in disk : d.path # path}
    /\ UNCHANGED <<tasks, registry, ctl, worker, stop_calls, library_folders, folder_rows,
                   cache_entries, imports, incVars, progress, importing, callVars>>

\* no request has been issued yet
AllIdle == \A w \in Workers : worker[w].pc = "idle"

\* the shell imports a file of the card into the import destination
import_from_card ==
    /\ AllIdle
    /\ \E source \in ImportSources : import_files(source, ImportFolder, foreign_keys)

\* the user deletes an imported file
imported_file_removed ==
    /\ AllIdle
    /\ \E d \in disk : file_removed(d.path)

\* imports and deletions first, then requests issued one after the other
NextLib ==
    \/ import_from_card
    \/ imported_file_removed
    \/ NextSeq

SpecLib == Init /\ [][NextLib]_vars

(***************************************************************************)
(* task_manager.rs: Task.info, the Mutex<TaskInfo>, at the grain of the     *)
(* lock: threads that each call increment_processed `Increments' times on  *)
(* the task of folder A while another thread calls get_info                *)
(***************************************************************************)
\* Task::get_info: the clone of the TaskInfo
get_info(t) ==
    [folder_path |-> t.folder_path, total_files |-> t.total_files,
     processed_files |-> t.processed_files, optimized_files |-> t.optimized_files,
     failed_files |-> t.failed_files, status |-> t.status]

\* an info that any thread enters at once
lock_unguarded(w) == TRUE

\* self.info.lock(): the mutex is taken when no thread holds it
can_lock(w) == info_lock = "free"

InitInc ==
    /\ \E start \in 0..1 :
          /\ tasks = <<[TaskNew("A", MaxTotal) EXCEPT !.processed_files = start]>>
          /\ probe = [start |-> start, info |-> start]
    /\ registry = [f \in Folders |-> 1]
    /\ ctl = NoCtl
    /\ worker = [w \in Workers |-> IdleWorker]
    /\ library_folders = {"A"}
    /\ folder_rows = {[id |-> 1, path |-> "A"]}
    /\ cache_entries = {}
    /\ disk = {[path |-> f.path, content |-> f.hash] : f \in SourceFiles \cup ImportSources}
    /\ stop_calls = {}
    /\ imports = 0
    /\ info_lock = "free"
    /\ thread = [w \in Workers |-> [pc |-> "call", left |-> Increments, local |-> 0]]
    /\ media_files = {}
    /\ last = NoCall
    /\ progress = NoBatch
    /\ importing = [c \in Calls |-> NoImport]

\* increment_processed line 47: let mut info = self.info.lock().unwrap()
increment_lock(w) ==
    /\ thread[w].pc = "call"
    /\ can_lock(w)
    /\ info_lock' = w
    /\ thread' = [thread EXCEPT ![w].pc = "load"]
    /\ UNCHANGED <<tasks, registry, ctl, worker, storeVars, stop_calls, imports, probe, progress, importing, callVars>>

\* line 48, info.processed_files += 1: the read
increment_load(w) ==
    /\ thread[w].pc = "load"
    /\ thread' = [thread EXCEPT ![w].pc = "store",
                                ![w].local = tasks[get_task("A")].processed_files]
    /\ UNCHANGED <<tasks, registry, ctl, worker, storeVars, stop_calls, imports,
                   info_lock, probe, progress, importing, callVars>>

\* line 48, the write, and line 49, where the guard is dropped
increment_store(w) ==
    /\ thread[w].pc = "store"
    /\ tasks' = [tasks EXCEPT ![get_task("A")] =
                    increment_processed([@ EXCEPT !.processed_files = thread[w].local])]
    /\ info_lock' = "free"
    /\ thread' = [thread EXCEPT ![w].left = @ - 1, ![w].local = 0,
                                ![w].pc = IF thread[w].left = 1 THEN "done" ELSE "call"]
    /\ UNCHANGED <<registry, ctl, worker, storeVars, stop_calls, imports, probe, progress, importing, callVars>>

\* a thread calls get_info: the lock, the clone, the unlock
read_info ==
    /\ can_lock("reader")
    /\ probe' = [probe EXCEPT !.info = get_info(tasks[get_task("A")]).processed_files]
    /\ UNCHANGED <<tasks, registry, ctl, worker, storeVars, stop_calls, imports,
                   info_lock, thread, progress, importing, callVars>>

NextInc ==
    \/ \E w \in Workers : increment_lock(w)
    \/ \E w \in Workers : increment_load(w)
    \/ \E w \in Workers : increment_store(w)
    \/ read_info

SpecInc == InitInc /\ [][NextInc]_vars

(***************************************************************************)
(* task_manager.rs at the grain of its two kinds of mutex: the registry    *)
(* lock (TaskManager.tasks) and the info lock of each task.  Two threads   *)
(* call the operations of the TaskManager, and the counter update of a     *)
(* worker, in any order; each lock() and each drop of a guard is a step.   *)
(* Here a thread record is [pc, op, step, local, tasks_guard, info_guard,  *)
(* left]: the operation under way, the index of its next lock step, the    *)
(* task it found, the guards it holds, the calls it has left.              *)
(***************************************************************************)
LockOps ==
    {"add_task", "remove_task", "increment_processed", "has_running_task",
     "get_all_tasks", "pause_task", "resume_task", "stop_task"}

\* a counter update that looks the task up while it holds the task's info lock
lock_steps_inverted(op) ==
    IF op \in {"add_task", "remove_task"} THEN <<"tasks.lock", "tasks.unlock">>
    ELSE IF op = "increment_processed"
    THEN <<"tasks.lock", "tasks.unlock", "info.lock", "tasks.lock", "tasks.unlock",
           "info.unlock">>
    ELSE <<"tasks.lock", "info.lock", "info.unlock", "tasks.unlock">>

\* the lock() calls and guard drops of each operation, in program order:
\* add_task and remove_task lock the registry only; a worker's counter update
\* is get_task (registry lock, dropped at its return) and then
\* Task::increment_processed (info lock); has_running_task, get_all_tasks,
\* pause_task, resume_task and stop_task call into the task (get_info, pause,
\* resume, stop: info lock) while they hold the registry guard
lock_steps(op) ==
    IF op \in {"add_task", "remove_task"} THEN <<"tasks.lock", "tasks.unlock">>
    ELSE IF op = "increment_processed"
    THEN <<"tasks.lock", "tasks.unlock", "info.lock", "info.unlock">>
    ELSE <<"tasks.lock", "info.lock", "info.unlock", "tasks.unlock">>

IdleThread ==
    [pc |-> "idle", op |-> "none", step |-> 0, local |-> 0,
     tasks_guard |-> FALSE, info_guard |-> 0, left |-> MaxCalls]

InitLock ==
    /\ tasks = <<>>
    /\ registry = [f \in Folders |-> 0]
    /\ ctl = NoCtl
    /\ worker = [w \in Workers |-> IdleWorker]
    /\ library_folders = {"A"}
    /\ folder_rows = {[id |-> 1, path |-> "A"]}
    /\ cache_entries = {}
    /\ disk = {[path |-> f.path, content |-> f.hash] : f \in SourceFiles \cup ImportSources}
    /\ stop_calls = {}
    /\ imports = 0
    /\ info_lock = "free"
    /\ thread = [w \in Workers |-> IdleThread]
    /\ probe = NoProbe
    /\ media_files = {}
    /\ last = NoCall
    /\ progress = NoBatch
    /\ importing = [c \in Calls |-> NoImport]

\* what the steps of the lock grain leave alone
lockFrame ==
    <<worker, storeVars, stop_calls, imports, info_lock, probe, progress, importing, callVars>>

\* the lock step thread w is at
at_step(w) ==
    IF thread[w].pc = "call" THEN lock_steps(thread[w].op)[thread[w].step] ELSE "none"

\* a registry any thread enters at once
registry_unguarded == TRUE

\* Mutex::lock returns when no thread holds the guard
tasks_free == \A v \in Workers : ~thread[v].tasks_guard
info_free(t) == \A v \in Workers : thread[v].info_guard # t

\* the thread after step i of its operation: the info steps are passed over
\* when no task was found (the None arm), the call returns after the last step
advance(rec) ==
    LET steps == lock_steps(rec.op)
        RECURSIVE from(_)
        from(i) == IF i <= Len(steps) /\ rec.local = 0
                      /\ steps[i] \in {"info.lock", "info.unlock"}
                   THEN from(i + 1) ELSE i
        next == from(rec.step + 1)
    IN IF next > Len(steps)
       THEN [rec EXCEPT !.pc = IF rec.left = 0 THEN "done" ELSE "idle",
                        !.op = "none", !.step = 0, !.local = 0]
       ELSE [rec EXCEPT !.step = next]

\* a thread calls an operation of the TaskManager for folder A
call(w, op) ==
    /\ thread[w].pc = "idle"
    /\ thread[w].left > 0
    /\ op = "add_task" => Len(tasks) < MaxCreated
    /\ thread' = [thread EXCEPT ![w] = [@ EXCEPT !.pc = "call", !.op = op, !.step = 1,
                                                   !.left = @ - 1]]
    /\ UNCHANGED <<tasks, registry, ctl, lockFrame>>

\* self.tasks.lock().unwrap() and the access to the map under the guard:
\* insert, remove, or get; pause_task, resume_task and stop_task do the store
\* to the task's flag before they take its info lock
tasks_lock(w) ==
    LET op == thread[w].op
        found == IF op \in {"add_task", "remove_task"} THEN 0 ELSE get_task("A")
    IN /\ at_step(w) = "tasks.lock"
       /\ tasks_free
       /\ tasks' = CASE op = "add_task" -> Append(tasks, TaskNew("A", 1))
                      [] op = "pause_task" /\ found # 0 -> [tasks EXCEPT ![found] = pause_store(@)]
                      [] op = "resume_task" /\ found # 0 -> [tasks EXCEPT ![found] = resume_store(@)]
                      [] op = "stop_task" /\ found # 0 -> [tasks EXCEPT ![found] = stop_store(@)]
                      [] OTHER -> tasks
       /\ registry' = CASE op = "add_task" -> [registry EXCEPT !["A"] = Len(tasks) + 1]
                         [] op = "remove_task" -> [registry EXCEPT !["A"] = 0]
                         [] OTHER -> registry
       /\ ctl' = [op |-> op, task |-> found]
       /\ thread' = [thread EXCEPT ![w] =
                        advance([@ EXCEPT !.tasks_guard = TRUE,
                                          !.local = IF @ # 0 THEN @ ELSE found])]
       /\ UNCHANGED lockFrame

\* the registry guard goes out of scope
tasks_unlock(w) ==
    /\ at_step(w) = "tasks.unlock"
    /\ ctl' = NoCtl
    /\ thread' = [thread EXCEPT ![w] = advance([@ EXCEPT !.tasks_guard = FALSE])]
    /\ UNCHANGED <<tasks, registry, lockFrame>>

\* self.info.lock().unwrap() in Task::pause / resume / stop / get_info /
\* increment_processed, and the access to the TaskInfo under the guard
info_lock_taken(w) ==
    LET op == thread[w].op
        t == thread[w].local
    IN /\ at_step(w) = "info.lock"
       /\ info_free(t)
       /\ tasks' = CASE op = "pause_task" -> [tasks EXCEPT ![t] = pause_status(@)]
                      [] op = "resume_task" -> [tasks EXCEPT ![t] = resume_status(@)]
                      [] op = "stop_task" -> [tasks EXCEPT ![t] = stop_status(@)]
                      [] op = "increment_processed" ->
                            [tasks EXCEPT ![t] = increment_processed(@)]
                      [] OTHER -> tasks
       /\ thread' = [thread EXCEPT ![w] = advance([@ EXCEPT !.info_guard = t])]
       /\ UNCHANGED <<registry, ctl, lockFrame>>

\* the info guard goes out of scope
info_unlock(w) ==
    /\ at_step(w) = "info.unlock"
    /\ thread' = [thread EXCEPT ![w] = advance([@ EXCEPT !.info_guard = 0])]
    /\ UNCHANGED <<tasks, registry, ctl, lockFrame>>

NextLock ==
    \/ \E w \in Workers, op \in LockOps : call(w, op)
    \/ \E w \in Workers : tasks_lock(w)
    \/ \E w \in Workers : tasks_unlock(w)
    \/ \E w \in Workers : info_lock_taken(w)
    \/ \E w \in Workers : info_unlock(w)

SpecLock == InitLock /\ [][NextLock]_vars

(***************************************************************************)
(* task_manager.rs: pause_task, resume_task and stop_task on a folder path *)
(* that has no task                                                        *)
(***************************************************************************)
\* a command that reports success whether or not it found a task
signal_ok(reg, folder_path) == "Ok"

\* the match on tasks.get(folder_path): Ok(()) with Some(task), else the error
signal_result(reg, folder_path) ==
    IF reg[folder_path] # 0 THEN "Ok" ELSE "Task not found"

\* TaskManager::pause_task/resume_task/stop_task, the None arm: the command
\* takes the registry lock, finds no task and returns
task_not_found(op, folder_path) ==
    /\ RegistryFree
    /\ get_task(folder_path) = 0
    /\ last' = Call(op, <<folder_path>>, <<signal_result(registry, folder_path)>>, 0)
    /\ UNCHANGED <<taskVars, folder_rows, cache_entries, disk, media_files>>

pause_task_not_found(folder_path) == task_not_found("pause_task", folder_path)

resume_task_not_found(folder_path) == task_not_found("resume_task", folder_path)

stop_task_not_found(folder_path) == task_not_found("stop_task", folder_path)

\* requests in turn and the shell's commands at any time, with or without a
\* task for the path
NextCmd ==
    \/ \E f \in Folders : pause_task_not_found(f)
    \/ \E f \in Folders : resume_task_not_found(f)
    \/ \E f \in Folders : stop_task_not_found(f)
    \/ NextSeq

SpecCmd == Init /\ [][NextCmd]_vars

(***************************************************************************)
(* task_manager.rs: the registry with tasks for two folder paths, the      *)
(* requests being for files of folder A                                    *)
(***************************************************************************)
TaskFolders == Folders \cup {ImportFolder}

\* a query that asks only whether a task is registered
has_task(folder_path) == registry[folder_path] # 0

\* TaskManager::has_running_task: the task of the path, its get_info, and
\* matches!(info.status, Running | Paused); false without a task
has_running_task(folder_path) ==
    IF registry[folder_path] # 0
    THEN get_info(tasks[registry[folder_path]]).status \in {"Running", "Paused"}
    ELSE FALSE

\* check_folder_has_running_task -> TaskManager::has_running_task, under the
\* registry lock
check_folder_has_running_task(folder_path) ==
    /\ RegistryFree
    /\ last' = Call("has_running_task", <<folder_path>>, <<has_running_task(folder_path)>>, 0)
    /\ UNCHANGED <<taskVars, folder_rows, cache_entries, disk, media_files>>

\* create_optimization_task for either path
create_optimization_task(folder_path, total_files) ==
    add_task_within(folder_path, total_files, MaxCreated)

InitReg ==
    /\ tasks = <<TaskNew(ImportFolder, 1)>>
    /\ registry = [f \in TaskFolders |-> IF f = ImportFolder THEN 1 ELSE 0]
    /\ ctl = NoCtl
    /\ worker = [w \in Workers |-> IdleWorker]
    /\ library_folders = {"A"}
    /\ folder_rows = {[id |-> 1, path |-> "A"]}
    /\ cache_entries = {}
    /\ disk = {[path |-> f.path, content |-> f.hash] : f \in SourceFiles \cup ImportSources}
    /\ stop_calls = {}
    /\ imports = 0
    /\ info_lock = "free"
    /\ thread = [w \in Workers |-> NoThread]
    /\ probe = NoProbe
    /\ media_files = {}
    /\ last = NoCall
    /\ progress = NoBatch
    /\ importing = [c \in Calls |-> NoImport]

\* a task created at any time
create_task ==
    \E f \in TaskFolders, n \in 1..MaxTotal : create_optimization_task(f, n)

\* a task removed between two requests
remove_in_turn ==
    /\ AllReturned
    /\ \E f \in TaskFolders : remove_task(f)

\* a task stopped between two requests
stop_in_turn ==
    /\ AllReturned
    /\ \E f \in TaskFolders : stop_task_begin(f)

\* tasks created on both paths at any time, tasks removed and stopped between
\* two requests, the requests one after the other
NextReg ==
    \/ create_task
    \/ remove_in_turn
    \/ stop_in_turn
    \/ stop_task_end
    \/ \E w \in Workers : request_in_turn(w)
    \/ \E w \in Workers : WorkerStep(w)

SpecReg == InitReg /\ [][NextReg]_vars

\* requests in turn, tasks created and removed between them, pause, resume and
\* stop at any time, and the shell asking whether the folder has a running task
NextQuery ==
    \/ \E f \in Folders : check_folder_has_running_task(f)
    \/ NextCall

SpecQuery == Init /\ [][NextQuery]_vars

(***************************************************************************)
(* config.rs and commands/cache_manager.rs: the commands that register and *)
(* unregister library folders, with the db.rs functions they call          *)
(***************************************************************************)
\* the JOIN of remove_library_folder and clear_folder_cache: the entries whose
\* folder row has this path
entries_of(path) ==
    {e \in cache_entries : \E r \in folder_rows : r.path = path /\ r.id = e.folder_id}

\* the (cached_path, file_hash) pairs a query returns
pairs(entries) == {<<e.cached_path, e.file_hash>> : e \in entries}

\* a removal that leaves the folder row in place
delete_none(rows, path) == rows

\* DELETE FROM library_folders WHERE path = ?1
delete_folder(rows, path) == {r \in rows : r.path # path}

\* fs::remove_file on every path of a list
remove_files(files, paths) == {d \in files : d.path \notin paths}

\* config.rs remove_library_folder: the folder leaves Config.library_folders
config_remove_library_folder(folder) ==
    /\ folder \in library_folders
    /\ library_folders' = library_folders \ {folder}
    /\ last' = Call("config_remove_library_folder", <<folder>>, <<>>, 0)
    /\ UNCHANGED <<tasks, registry, ctl, worker, stop_calls, folder_rows, cache_entries,
                   disk, imports, incVars, progress, importing, media_files>>

\* cache_manager.rs unregister_library_folder: Database::remove_library_folder,
\* then every cached file it returned is deleted
unregister_library_folder(folder_path) ==
    /\ folder_rows' = delete_folder(folder_rows, folder_path)
    /\ cache_entries' = cascade(cache_entries, folder_rows', foreign_keys)
    /\ media_files' = cascade(media_files, folder_rows', foreign_keys)
    /\ disk' = remove_files(disk, {p[1] : p \in pairs(entries_of(folder_path))})
    /\ last' = Call("remove_library_folder", <<folder_path>>,
                    <<pairs(entries_of(folder_path))>>, Deleted(cache_entries, cache_entries'))
    /\ UNCHANGED <<tasks, registry, ctl, worker, stop_calls, library_folders, imports, incVars, progress, importing>>

\* the user removes a library folder in the shell: from the configuration and
\* from the store, in either order
folder_removed ==
    \/ \E f \in Folders : config_remove_library_folder(f)
    \/ \E f \in Folders : unregister_library_folder(f)

\* requests issued one after the other while the user removes library folders
NextFolder ==
    \/ folder_removed
    \/ NextSeq

SpecFolder == Init /\ [][NextFolder]_vars

(***************************************************************************)
(* db.rs and commands/cache_manager.rs: the store's commands called in any *)
(* order on the library folders A and B                                    *)
(***************************************************************************)
StoreFolders == Folders \cup {ImportFolder}

\* the files the store is told about: those of folder A, and one of folder B
\* with the other content
StoreFiles ==
    SourceFiles \cup {[path |-> Path(ImportFolder, <<>>, <<3>>, "jpg"), hash |-> H2]}

\* cache_manager.rs register_library_folder -> Database::add_library_folder,
\* which returns last_insert_rowid()
register_library_folder(folder_path) ==
    /\ MaxOf({r.id : r \in folder_rows}) < MaxRowId
    /\ folder_rows' = add_library_folder(folder_rows, folder_path)
    /\ cache_entries' = cascade(cache_entries, folder_rows', foreign_keys)
    /\ media_files' = cascade(media_files, folder_rows', foreign_keys)
    /\ last' = Call("add_library_folder", <<folder_path>>,
                    <<MaxOf({r.id : r \in folder_rows'})>>, Deleted(cache_entries, cache_entries'))
    /\ UNCHANGED <<taskVars, disk>>

\* a clearing that empties the table
clear_all(entries, rows, path) == {}

\* Database::clear_folder_cache: DELETE FROM cache_entries WHERE folder_id IN
\* (SELECT id FROM library_folders WHERE path = ?1)
clear_entries(entries, rows, path) ==
    {e \in entries : ~\E r \in rows : r.path = path /\ r.id = e.folder_id}

\* cache_manager.rs clear_folder_cache: Database::clear_folder_cache, then
\* every cached file it returned is deleted
clear_folder_cache(folder_path) ==
    /\ cache_entries' = clear_entries(cache_entries, folder_rows, folder_path)
    /\ disk' = remove_files(disk, {p[1] : p \in pairs(entries_of(folder_path))})
    /\ last' = Call("clear_folder_cache", <<folder_path>>, <<pairs(entries_of(folder_path))>>,
                    Deleted(cache_entries, cache_entries'))
    /\ UNCHANGED <<taskVars, folder_rows, media_files>>

\* cache_manager.rs register_cache_entry: the folder's id, from a new row if
\* the folder has none, then Database::add_cache_entry
register_cache_entry(folder_path, original_path, file_hash, cached_path, media_type) ==
    /\ MaxOf({r.id : r \in folder_rows}) < MaxRowId
    /\ MaxOf({e.id : e \in cache_entries}) < MaxEntryId
    /\ LET rows == IF get_folder_id(folder_path) = 0
                   THEN add_library_folder(folder_rows, folder_path) ELSE folder_rows
           folder_id == (CHOOSE r \in rows : r.path = folder_path).id
       IN /\ folder_rows' = rows
          /\ cache_entries' = add_cache_entry(cache_entries, folder_id, original_path,
                                              file_hash, cached_path, media_type)
          /\ last' = Call("add_cache_entry",
                          <<folder_id, original_path, file_hash, cached_path, media_type>>,
                          <<>>, Deleted(cache_entries, cache_entries'))
    /\ UNCHANGED <<taskVars, disk, media_files>>

\* Database::check_file_exists lines 310-317: the original paths recorded for a hash
original_paths(entries, file_hash) ==
    {e.original_path : e \in {x \in entries : x.file_hash = file_hash}}

\* a check that is satisfied by any entry with the hash
found_recorded(entries, files, file_hash) == original_paths(entries, file_hash) # {}

\* lines 319-326: does one of them exist on disk?
found_existing(entries, files, file_hash) ==
    \E p \in original_paths(entries, file_hash) : \E d \in files : d.path = p

\* a check that never deletes
stale_kept(entries, files, file_hash) == entries

\* lines 328-334: when entries are recorded and none of the files exists, the
\* entries with the hash are deleted
stale_deleted(entries, files, file_hash) ==
    IF original_paths(entries, file_hash) # {} /\ ~found_existing(entries, files, file_hash)
    THEN {e \in entries : e.file_hash # file_hash}
    ELSE entries

\* Database::check_file_exists, called by the import scan (import.rs check_duplicate)
check_file_exists(file_hash) ==
    /\ cache_entries' = stale_deleted(cache_entries, disk, file_hash)
    /\ last' = Call("check_file_exists", <<file_hash>>,
                    <<found_existing(cache_entries, disk, file_hash)>>,
                    Deleted(cache_entries, cache_entries'))
    /\ UNCHANGED <<taskVars, folder_rows, disk, media_files>>

\* cache_manager.rs get_cached_file_path -> Database::get_cached_path
get_cached_file_path(file_hash) ==
    /\ last' = Call("get_cached_path", <<file_hash>>, <<get_cached_path(file_hash)>>, 0)
    /\ UNCHANGED <<taskVars, folder_rows, cache_entries, disk, media_files>>

\* Database::upsert_media_file: INSERT OR REPLACE under UNIQUE(file_path)
upsert_media_file(rows, folder_id, file_path, file_hash) ==
    {m \in rows : m.file_path # file_path}
    \cup {[folder_id |-> folder_id, file_path |-> file_path, file_hash |-> file_hash]}

\* media_db.rs save_media_files_to_db with one file: the file is recorded under
\* the library folder that holds it; a file of no library folder is skipped
save_media_file(file) ==
    /\ media_files' =
          IF get_folder_id(file.path.dir) # 0
             /\ fk_holds(folder_rows, get_folder_id(file.path.dir), foreign_keys)
          THEN upsert_media_file(media_files, get_folder_id(file.path.dir), file.path, file.hash)
          ELSE media_files
    /\ last' = Call("upsert_media_file", <<file.path>>, <<>>, 0)
    /\ UNCHANGED <<taskVars, folder_rows, cache_entries, disk>>

\* the user deletes a media file of a library folder
source_removed(path) ==
    /\ path.dir \in StoreFolders \cup {Sibling}
    /\ exists(path)
    /\ disk' = {d \in disk : d.path # path}
    /\ last' = Call("source_removed", <<path>>, <<>>, 0)
    /\ UNCHANGED <<taskVars, folder_rows, cache_entries, media_files>>

\* the cached path a caller registers for a file: the file itself for a file
\* of the import destination (import.rs), else the derivative (optimizer.rs)
CachedPath(file) ==
    IF file.path.dir = ImportFolder THEN file.path
    ELSE OutputPath(file.hash, media_type_of(file.path))

\* the files the shell saves media records of
MediaFiles == {f \in StoreFiles : f.path.name = <<1>>}

\* the orders in which WalkDir can deliver a set of files
Orderings(S) ==
    {q \in [1..Cardinality(S) -> S] : \A i, j \in 1..Cardinality(S) : q[i] = q[j] => i = j}

\* import.rs rescan_library_folder lines 362-408: each file found is hashed and,
\* unless check_file_exists knows the content, registered as its own cached file
RECURSIVE rescan_entries(_, _, _)
rescan_entries(entries, found, folder_id) ==
    IF found = <<>> THEN entries
    ELSE rescan_entries(
             IF found_existing(entries, disk, Head(found).content) THEN entries
             ELSE IF ~fk_holds(folder_rows', folder_id, foreign_keys)
             THEN stale_deleted(entries, disk, Head(found).content)
             ELSE add_cache_entry(stale_deleted(entries, disk, Head(found).content), folder_id,
                                  Head(found).path, Head(found).content, Head(found).path,
                                  media_type_of(Head(found).path)),
             Tail(found), folder_id)

\* str::to_lowercase on the folder paths (file names are digits)
to_lowercase(s) ==
    CASE s = "A" -> "a"
      [] s = "A2" -> "a2"
      [] s = "B" -> "b"
      [] OTHER -> s

\* the same on a path
lowercased(path) == [path EXCEPT !.dir = to_lowercase(@)]

\* str::starts_with of a file path and a folder path: the folder path is the
\* beginning of the directory the file is in
starts_with(dir, folder_path) == \E rest \in {"", "2"} : dir = folder_path \o rest

\* lines 342-355: the media records whose lowercased path begins with the
\* lowercased folder path and is not among the lowercased paths found
missing_deleted(rows, folder_path, found) ==
    {m \in rows :
        ~(/\ starts_with(lowercased(m.file_path).dir, to_lowercase(folder_path))
          /\ lowercased(m.file_path) \notin {lowercased(d.path) : d \in found})}

\* import.rs rescan_library_folder: registers the folder, drops the media
\* records of its missing files and registers the files it finds
rescan_library_folder(folder_path) ==
    LET found == {d \in disk : d.path.dir = folder_path /\ media_type_of(d.path) # "unknown"}
    IN /\ MaxOf({r.id : r \in folder_rows}) < MaxRowId
       /\ MaxOf({e.id : e \in cache_entries}) + Cardinality(found) <= MaxEntryId
       /\ folder_rows' = add_library_folder(folder_rows, folder_path)
       /\ media_files' = missing_deleted(cascade(media_files, folder_rows', foreign_keys),
                                         folder_path, found)
       /\ \E order \in Orderings(found) :
             cache_entries' = rescan_entries(cascade(cache_entries, folder_rows', foreign_keys),
                                             order, MaxOf({r.id : r \in folder_rows'}))
       /\ last' = Call("rescan_library_folder", <<folder_path>>, <<>>,
                       Deleted(cache_entries, cache_entries'))
       /\ UNCHANGED <<taskVars, disk>>

NextStore ==
    \/ \E f \in StoreFolders : register_library_folder(f)
    \/ \E f \in StoreFolders : unregister_library_folder(f)
    \/ \E f \in StoreFolders : clear_folder_cache(f)
    \/ \E f \in StoreFolders, file \in StoreFiles :
          register_cache_entry(f, file.path, file.hash, CachedPath(file),
                               media_type_of(file.path))
    \/ \E h \in Hashes : check_file_exists(h)
    \/ \E h \in Hashes : get_cached_file_path(h)
    \/ \E file \in MediaFiles : save_media_file(file)
    \/ \E file \in StoreFiles : source_removed(file.path)
    \/ \E f \in StoreFolders : rescan_library_folder(f)

SpecStore == Init /\ [][NextStore]_vars

\* the first file of folder A has been optimized: its derivative is on disk
\* and registered for folder A
InitShare ==
    /\ tasks = <<>>
    /\ registry = [f \in Folders |-> 0]
    /\ ctl = NoCtl
    /\ worker = [w \in Workers |-> IdleWorker]
    /\ library_folders = {"A"}
    /\ folder_rows = {[id |-> 1, path |-> "A"]}
    /\ cache_entries =
          {[id |-> 1, folder_id |-> 1, original_path |-> Path("A", <<>>, <<1>>, "jpg"),
            file_hash |-> H1, cached_path |-> OutputPath(H1, "image"),
            media_type |-> "image"]}
    /\ disk = {[path |-> f.path, content |-> f.hash] : f \in SourceFiles \cup ImportSources}
                 \cup {[path |-> OutputPath(H1, "image"), content |-> H1]}
    /\ stop_calls = {}
    /\ imports = 0
    /\ info_lock = "free"
    /\ thread = [w \in Workers |-> NoThread]
    /\ probe = NoProbe
    /\ media_files = {}
    /\ last = NoCall
    /\ progress = NoBatch
    /\ importing = [c \in Calls |-> NoImport]

\* the store's commands called in any order from there
SpecShare == InitShare /\ [][NextStore]_vars

\* an import between two requests
import_in_turn ==
    /\ AllReturned
    /\ \E source \in ImportSources : import_files(source, ImportFolder, foreign_keys)

\* a rescan between two requests
rescan_in_turn ==
    /\ AllReturned
    /\ \E f \in Folders : rescan_library_folder(f)

\* folder A has its task, for all its files
InitOwn ==
    /\ tasks = <<TaskNew("A", MaxTotal)>>
    /\ registry = [f \in Folders |-> 1]
    /\ ctl = NoCtl
    /\ worker = [w \in Workers |-> IdleWorker]
    /\ library_folders = {"A"}
    /\ folder_rows = {[id |-> 1, path |-> "A"]}
    /\ cache_entries = {}
    /\ disk = {[path |-> f.path, content |-> f.hash] : f \in SourceFiles \cup ImportSources}
    /\ stop_calls = {}
    /\ imports = 0
    /\ info_lock = "free"
    /\ thread = [w \in Workers |-> NoThread]
    /\ probe = NoProbe
    /\ media_files = {}
    /\ last = NoCall
    /\ progress = NoBatch
    /\ importing = [c \in Calls |-> NoImport]

\* requests issued one after the other, rescans and imports between them,
\* while the shell registers and unregisters the folder and clears its cache
NextOwn ==
    \/ \E w \in Workers : request_in_turn(w)
    \/ \E w \in Workers : WorkerStep(w)
    \/ \E f \in Folders : register_library_folder(f)
    \/ \E f \in Folders : unregister_library_folder(f)
    \/ \E f \in Folders : clear_folder_cache(f)
    \/ rescan_in_turn
    \/ import_in_turn

SpecOwn == InitOwn /\ [][NextOwn]_vars

(***************************************************************************)
(* optimizer.rs: batch_optimize_folder                                     *)
(***************************************************************************)
BatchWorker == "w1"

\* the media files WalkDir finds under the folder
media_entries(folder_path) ==
    {d.path : d \in {e \in disk : e.path.dir = folder_path
                                    /\ media_type_of(e.path) # "unknown"}}

\* lines 289-305: the files collected, progress.total set
batch_optimize_folder(folder_path) ==
    /\ progress.pc = "none"
    /\ \E order \in Orderings(media_entries(folder_path)) :
          progress' = [progress EXCEPT !.pc = "loop", !.entries = order,
                                       !.found = media_entries(folder_path),
                                       !.total = Len(order)]
    /\ UNCHANGED <<stateVars, importing, folder_rows, cache_entries, disk, callVars>>

\* a loop that ends at the first file that fails
failed_break(p, kind) ==
    [p EXCEPT !.failed = @ + 1, !.entries = <<>>,
              !.attempted = Append(@, <<Head(p.entries), kind>>)]

\* lines 320-324 and 330: failed is counted and the loop goes on (continue)
failed_continue(p, kind) ==
    [p EXCEPT !.failed = @ + 1, !.entries = Tail(@),
              !.attempted = Append(@, <<Head(p.entries), kind>>)]

\* lines 308-325: the next file is counted as processed and hashed; hash_file
\* fails on a file that is gone
batch_hash_file ==
    /\ progress.pc = "loop"
    /\ progress.entries # <<>>
    /\ ~exists(Head(progress.entries))
    /\ progress' = failed_continue([progress EXCEPT !.processed = @ + 1], "hash")
    /\ UNCHANGED <<stateVars, importing, folder_rows, cache_entries, disk, callVars>>

\* lines 308-328: the next file is counted as processed, hashed and handed to
\* optimize_media_file_internal
batch_optimize_file(folder_path) ==
    /\ progress.pc = "loop"
    /\ progress.entries # <<>>
    /\ exists(Head(progress.entries))
    /\ progress' = [progress EXCEPT !.pc = "call", !.processed = @ + 1]
    /\ LET path == Head(progress.entries)
           file_hash == (CHOOSE d \in disk : d.path = path).content
       IN CommitTasks(tasks, registry, ctl,
                      [worker EXCEPT ![BatchWorker] = check_library_folder(
                          [IdleWorker EXCEPT
                              !.folder_path = folder_path, !.file = path,
                              !.file_hash = file_hash,
                              !.media_type = media_type_of(path)])], stop_calls)
    /\ UNCHANGED storeVars

\* lines 328-331: the result of optimize_media_file_internal is counted; the
\* batch calls the internal function, so an Err does not pass through the Err
\* arm of optimize_media_file
batch_result ==
    /\ progress.pc = "call"
    /\ worker[BatchWorker].pc \in {"done", "wrap_get_task"}
    /\ progress' = IF worker[BatchWorker].pc = "done"
                   THEN [progress EXCEPT
                            !.pc = "loop", !.optimized = @ + 1, !.entries = Tail(@),
                            !.attempted = Append(@, <<Head(progress.entries), "ok">>)]
                   ELSE failed_continue([progress EXCEPT !.pc = "loop"], "err")
    /\ CommitTasks(tasks, registry, ctl,
                   [worker EXCEPT ![BatchWorker] = Returned(@)], stop_calls)
    /\ UNCHANGED storeVars

\* line 334: Ok(progress)
batch_return ==
    /\ progress.pc = "loop"
    /\ progress.entries = <<>>
    /\ progress' = [progress EXCEPT !.pc = "returned"]
    /\ UNCHANGED <<stateVars, importing, folder_rows, cache_entries, disk, callVars>>

\* a file of the folder deleted while the batch runs
batch_file_removed ==
    /\ progress.pc # "none"
    /\ \E file \in SourceFiles : source_removed(file.path)

\* one batch over the folder, its requests step by step, files deleted under
\* it, pause, resume and stop at any time, tasks created and removed between
\* two files
NextBatch ==
    \/ \E f \in Folders : batch_optimize_folder(f)
    \/ batch_hash_file
    \/ \E f \in Folders : batch_optimize_file(f)
    \/ batch_result
    \/ batch_return
    \/ batch_file_removed
    \/ registration_in_turn
    \/ Signal
    \/ InternalStep(BatchWorker)

SpecBatch == Init /\ [][NextBatch]_vars

(***************************************************************************)
(* optimizer.rs and utils/hash.rs: derivatives named by the short hash     *)
(***************************************************************************)
\* a content hash that differs from H1 after its first 16 characters
H3 == Prefix \o <<2>>

\* folder A holds two files whose hashes begin with the same 16 characters;
\* the first has been optimized
InitShort ==
    /\ tasks = <<>>
    /\ registry = [f \in Folders |-> 0]
    /\ ctl = NoCtl
    /\ worker = [w \in Workers |-> IdleWorker]
    /\ library_folders = {"A"}
    /\ folder_rows = {[id |-> 1, path |-> "A"]}
    /\ cache_entries =
          {[id |-> 1, folder_id |-> 1, original_path |-> Path("A", <<>>, <<1>>, "jpg"),
            file_hash |-> H1, cached_path |-> OutputPath(H1, "image"),
            media_type |-> "image"]}
    /\ disk = { [path |-> Path("A", <<>>, <<1>>, "jpg"), content |-> H1],
                [path |-> Path("A", <<>>, <<2>>, "jpg"), content |-> H3],
                [path |-> OutputPath(H1, "image"), content |-> H1] }
    /\ stop_calls = {}
    /\ imports = 0
    /\ info_lock = "free"
    /\ thread = [w \in Workers |-> NoThread]
    /\ probe = NoProbe
    /\ media_files = {}
    /\ last = NoCall
    /\ progress = NoBatch
    /\ importing = [c \in Calls |-> NoImport]

\* a batch over the two files
SpecShort == InitShort /\ [][NextBatch]_vars

(***************************************************************************)
(* commands/import.rs: rescan_library_folder and the media records         *)
(***************************************************************************)
RescanFolders == Folders \cup {Sibling}

\* one file in each of the two folders
RescanFiles ==
    { [path |-> Path("A", <<>>, <<1>>, "jpg"), hash |-> H1],
      [path |-> Path(Sibling, <<>>, <<1>>, "jpg"), hash |-> H2] }

\* both folders registered, their files on disk, no records yet
InitRescan ==
    /\ tasks = <<>>
    /\ registry = [f \in Folders |-> 0]
    /\ ctl = NoCtl
    /\ worker = [w \in Workers |-> IdleWorker]
    /\ library_folders = RescanFolders
    /\ folder_rows = {[id |-> 1, path |-> "A"], [id |-> 2, path |-> Sibling]}
    /\ cache_entries = {}
    /\ disk = {[path |-> f.path, content |-> f.hash] : f \in RescanFiles}
    /\ stop_calls = {}
    /\ imports = 0
    /\ info_lock = "free"
    /\ thread = [w \in Workers |-> NoThread]
    /\ probe = NoProbe
    /\ media_files = {}
    /\ last = NoCall
    /\ progress = NoBatch
    /\ importing = [c \in Calls |-> NoImport]

\* the scanner records the media files, the user deletes files, the folders
\* are rescanned
NextRescan ==
    \/ \E file \in RescanFiles : save_media_file(file)
    \/ \E file \in RescanFiles : source_removed(file.path)
    \/ \E f \in RescanFolders : rescan_library_folder(f)

SpecRescan == InitRescan /\ [][NextRescan]_vars

(***************************************************************************)
(* commands/import.rs: import_files file by file, scan_import_source       *)
(***************************************************************************)
\* two files of two cards with the same name and date and different contents
CardFiles ==
    { [path |-> Path("card", <<>>, <<1>>, "jpg"), hash |-> H1,
       modified |-> [year |-> 2024, month |-> 3, day |-> 9]],
      [path |-> Path("stick", <<>>, <<1>>, "jpg"), hash |-> H2,
       modified |-> [year |-> 2024, month |-> 3, day |-> 9]] }

\* the lists of files a call is given
ImportLists == UNION {Orderings(S) : S \in (SUBSET CardFiles) \ {{}}}

ImportDests == Folders \cup {ImportFolder}

InitImport ==
    /\ tasks = <<>>
    /\ registry = [f \in Folders |-> 0]
    /\ ctl = NoCtl
    /\ worker = [w \in Workers |-> IdleWorker]
    /\ library_folders = {"A"}
    /\ folder_rows = {[id |-> 1, path |-> "A"]}
    /\ cache_entries = {}
    /\ disk = {[path |-> f.path, content |-> f.hash] : f \in CardFiles}
    /\ stop_calls = {}
    /\ imports = 0
    /\ info_lock = "free"
    /\ thread = [w \in Workers |-> NoThread]
    /\ probe = NoProbe
    /\ media_files = {}
    /\ last = NoCall
    /\ progress = NoBatch
    /\ importing = [c \in Calls |-> NoImport]

\* lines 164-177: the call starts, the destination is registered as a library
\* folder (INSERT OR REPLACE) and its id kept for the whole call
import_files_begin(c, files, destination_folder) ==
    /\ importing[c].pc = "idle"
    /\ folder_rows' = add_library_folder(folder_rows, destination_folder)
    /\ cache_entries' = cascade(cache_entries, folder_rows', foreign_keys)
    /\ media_files' = cascade(media_files, folder_rows', foreign_keys)
    /\ importing' = [importing EXCEPT ![c] =
                        [NoImport EXCEPT !.pc = "loop", !.files = files,
                                         !.dest = destination_folder,
                                         !.folder_id = MaxOf({r.id : r \in folder_rows'})]]
    /\ UNCHANGED <<stateVars, progress, disk, last>>

\* lines 255-283, Ok arm: the file is done and its path pushed on the result;
\* the files the copy has overwritten and the contents copied are kept as
\* history
copied(rec, files) ==
    [rec EXCEPT !.pc = "loop", !.files = Tail(@),
                !.imported_files = Append(@, rec.final_dest),
                !.overwritten = @ \cup {d \in files : d.path = rec.final_dest},
                !.contents = @ \cup {Head(rec.files).hash}]

\* lines 181-252: the next file of the list; a source that is gone is skipped,
\* else the destination name is chosen among the names that are free
import_files_name(c) ==
    /\ importing[c].pc = "loop"
    /\ importing[c].files # <<>>
    /\ LET source == Head(importing[c].files)
       IN importing' = [importing EXCEPT ![c] =
              IF exists(source.path)
              THEN [@ EXCEPT !.pc = "copy", !.final_dest = final_dest(importing[c].dest, source)]
              ELSE [@ EXCEPT !.files = Tail(@)]]
    /\ UNCHANGED <<stateVars, progress, storeVars, callVars>>

\* lines 254-287: fs::copy to the chosen name and, when it succeeds, the copy
\* registered as its own cached file (a refused insert is only printed) and
\* its path pushed on the result
import_files_copy(c) ==
    /\ importing[c].pc = "copy"
    /\ LET rec == importing[c]
           source == Head(rec.files)
       IN IF exists(source.path)
          THEN /\ disk' = WriteFile(disk, rec.final_dest, source.hash)
               /\ cache_entries' =
                      IF fk_holds(folder_rows, rec.folder_id, foreign_keys)
                      THEN add_cache_entry(cache_entries, rec.folder_id, rec.final_dest,
                                           source.hash, rec.final_dest,
                                           media_type_of(rec.final_dest))
                      ELSE cache_entries
               /\ importing' = [importing EXCEPT ![c] = copied(rec, disk)]
          ELSE /\ importing' = [importing EXCEPT ![c].pc = "loop", ![c].files = Tail(@)]
               /\ UNCHANGED <<disk, cache_entries>>
    /\ UNCHANGED <<stateVars, progress, library_folders, folder_rows, callVars>>

\* line 292: Ok(imported_files)
import_files_return(c) ==
    /\ importing[c].pc = "loop"
    /\ importing[c].files = <<>>
    /\ importing' = [importing EXCEPT ![c].pc = "returned"]
    /\ UNCHANGED <<stateVars, progress, storeVars, callVars>>

\* scan_import_source on one file of a card: check_duplicate hashes the file
\* and asks the store (lines 150-155); the answer is the file's is_duplicate
check_duplicate(source) ==
    /\ exists(source.path)
    /\ check_file_exists(source.hash)

\* import_files calls that overlap, and scans of the cards at any time
NextImport ==
    \/ \E c \in Calls, files \in ImportLists, dest \in ImportDests :
          import_files_begin(c, files, dest)
    \/ \E c \in Calls : import_files_name(c)
    \/ \E c \in Calls : import_files_copy(c)
    \/ \E c \in Calls : import_files_return(c)
    \/ \E source \in CardFiles : check_duplicate(source)

SpecImport == InitImport /\ [][NextImport]_vars

(***************************************************************************)
(* Properties                                                              *)
(***************************************************************************)
\* the tasks that exist
LiveTasks == {t \in DOMAIN tasks : tasks[t].status # "Dropped"}

\* the step on which pause_task / resume_task / stop_task returns Ok
Returns(op) == ctl.op = op /\ ctl'.op = "none"

\* how often a request has counted `kind' on task t
Counted(w, kind, t) ==
    Cardinality({i \in DOMAIN worker[w].log : worker[w].log[i] = <<kind, t>>})

\* how often all requests together have counted `kind' on task t
SumCounted(kind, t) ==
    LET RECURSIVE Sum(_)
        Sum(S) == IF S = {} THEN 0
                  ELSE LET w == CHOOSE x \in S : TRUE IN Counted(w, kind, t) + Sum(S \ {w})
    IN Sum(Workers)

\* C1: whatever pause and resume calls came before, the status of a task is
\* Stopped when a stop_task on it returns Ok.
C1_StopGivesStopped ==
    [][Returns("stop") => tasks'[ctl.task].status = "Stopped"]_vars

\* C1: a task that was paused before it was stopped
C1_Witness ==
    \E t \in stop_calls : tasks[t].should_pause /\ tasks[t].status = "Stopped"

\* C2: once stop_task has succeeded on a task, a pause_task, resume_task or
\* stop_task that returns on that task leaves its status Stopped.
C2_StoppedIsFinal ==
    [][\A op \in {"pause", "resume", "stop"} :
          (Returns(op) /\ ctl.task \in stop_calls /\ tasks[ctl.task].status = "Stopped")
             => tasks'[ctl.task].status = "Stopped"]_vars

\* C3: a task whose status is Completed has processed_files >= total_files and
\* stop_task has never succeeded on it.
C3_CompletedMeansDoneAndNeverStopped ==
    \A t \in LiveTasks :
        tasks[t].status = "Completed"
           => tasks[t].processed_files >= tasks[t].total_files /\ t \notin stop_calls

\* C4: when every request has returned, a registered task on which stop was
\* never called and whose processed_files has reached total_files is Completed.
C4_DoneMeansCompleted ==
    \A f \in Folders :
        (/\ AllReturned
         /\ registry[f] # 0
         /\ ctl.op = "none"
         /\ ~tasks[registry[f]].should_stop
         /\ tasks[registry[f]].processed_files >= tasks[registry[f]].total_files)
           => tasks[registry[f]].status = "Completed"

\* C5: no step lowers processed_files, optimized_files or failed_files of a
\* task that exists before and after the step.
C5_CountersNeverDecrease ==
    [][\A t \in LiveTasks :
          tasks'[t].status # "Dropped"
             => /\ tasks'[t].processed_files >= tasks[t].processed_files
                /\ tasks'[t].optimized_files >= tasks[t].optimized_files
                /\ tasks'[t].failed_files >= tasks[t].failed_files]_vars

\* C5: a task with counted files that was paused and resumed
C5_Witness ==
    \E t \in LiveTasks :
        /\ tasks[t].processed_files >= 1 /\ tasks[t].failed_files >= 1
        /\ tasks[t].optimized_files >= 1 /\ tasks[t].status = "Running" /\ ctl.op = "resume"

\* the count N*C that the threads of SpecInc add together
AllIncrements == Cardinality(Workers) * Increments

\* C6: when every thread has made its increment_processed calls,
\* processed_files is the count the threads started from plus N*C, and every
\* get_info read a count between the start and that final count.
C6_NoLostUpdate ==
    /\ probe.info \in probe.start .. (probe.start + AllIncrements)
    /\ (\A w \in Workers : thread[w].pc = "done")
          => tasks[get_task("A")].processed_files = probe.start + AllIncrements

\* C6: all threads are done and the last get_info was taken between two of
\* their increments
C6_Witness ==
    /\ \A w \in Workers : thread[w].pc = "done" /\ thread[w].left = 0
    /\ probe.start < probe.info
    /\ probe.info < tasks[get_task("A")].processed_files

\* C7: a pause_task, resume_task or stop_task that returns on a task whose
\* status is Completed leaves it Completed.
C7_CompletedIsFinal ==
    [][\A op \in {"pause", "resume", "stop"} :
          (Returns(op) /\ tasks[ctl.task].status = "Completed")
             => tasks'[ctl.task].status = "Completed"]_vars

\* C8: of two requests for the same content hash that were served one after
\* the other and both returned Ok, at most one ran the transform and both
\* returned the same path; once a request has returned Ok, get_cached_path of
\* its hash names a file that exists.
C8_SecondCallIsCached ==
    \A w \in Workers :
        (worker[w].pc = "done" /\ worker[w].result = "Ok")
           => /\ exists(get_cached_path(worker[w].file_hash))
              /\ \A v \in Workers \ {w} :
                    (/\ worker[v].pc = "done" /\ worker[v].result = "Ok"
                     /\ worker[v].file_hash = worker[w].file_hash)
                       => /\ worker[v].cached_path = worker[w].cached_path
                          /\ worker[v].transforms + worker[w].transforms <= 1

\* every count of a task is the number of times the requests have counted on it
CountsAreLogged ==
    \A t \in LiveTasks :
        /\ tasks[t].processed_files = SumCounted("processed", t)
        /\ tasks[t].optimized_files = SumCounted("optimized", t)
        /\ tasks[t].failed_files = SumCounted("failed", t)

\* C9: a request that found no cache entry for its hash and returns Ok returns
\* optimized/<first 16 characters of the hash>.<webp or mp4>, leaves a cache
\* entry with that hash for its folder, and has added exactly one to the
\* processed_files and one to the optimized_files of the folder's task (the
\* counts being, in every state, what the requests have added).
C9_FreshOptimize ==
    [][/\ CountsAreLogged'
       /\ \A w \in Workers :
          (/\ worker[w].pc # "done" /\ worker'[w].pc = "done"
           /\ worker'[w].result = "Ok" /\ worker[w].fresh)
             => /\ worker'[w].cached_path =
                      [dir |-> "optimized", sub |-> <<>>,
                       name |-> SubSeq(worker[w].file_hash, 1, 16),
                       ext |-> IF worker[w].media_type = "image" THEN "webp" ELSE "mp4"]
                /\ \E e \in cache_entries' :
                      /\ e.file_hash = worker[w].file_hash
                      /\ \E r \in folder_rows' :
                            r.path = worker[w].folder_path /\ r.id = e.folder_id
                /\ registry'[worker[w].folder_path] # 0
                      => worker'[w].log =
                            << <<"processed", registry'[worker[w].folder_path]>>,
                               <<"optimized", registry'[worker[w].folder_path]>> >>]_vars

\* C9: a request has optimized a file of unknown content and returned Ok, and
\* the folder's task, the same all along, has counted it
C9_Witness ==
    \E w \in Workers, f \in Folders :
        /\ worker[w].pc = "done" /\ worker[w].result = "Ok" /\ worker[w].transforms = 1
        /\ registry[f] # 0 /\ worker[w].folder_path = f
        /\ worker[w].log = <<<<"processed", registry[f]>>, <<"optimized", registry[f]>>>>
        /\ tasks[registry[f]].processed_files = 1 /\ tasks[registry[f]].optimized_files = 1
        /\ \E e \in cache_entries : e.file_hash = worker[w].file_hash

\* C10: a request that aborted on a stopped task has counted exactly one
\* processed file and exactly one failed file on that task when it returns.
C10_StopAbortCountedOnce ==
    \A w \in Workers :
        (worker[w].pc = "done" /\ worker[w].result = "TaskStopped")
           => /\ Counted(w, "processed", worker[w].log[1][2]) = 1
              /\ Counted(w, "failed", worker[w].log[1][2]) = 1

\* C10: an aborted request has returned through the command wrapper while
\* the stopped task was still registered
C10_Witness ==
    \E w \in Workers :
        /\ worker[w].pc = "done" /\ worker[w].result = "TaskStopped"
        /\ \E f \in Folders : registry[f] # 0 /\ registry[f] = worker[w].log[1][2]

\* C11: a request whose folder is not in the configuration when it returns
\* (never registered, or removed before the call finished) returns the
\* folder-removed error, has created no cache entry for its file and has left
\* no derivative on disk that no cache entry references
C11_FolderRemovedLeavesNothing ==
    [][\A w \in Workers :
          (/\ worker[w].pc # "done"
           /\ worker'[w].pc = "done"
           /\ worker[w].folder_path \notin library_folders')
          => /\ worker'[w].result = "FolderRemoved"
             /\ \A e \in cache_entries' : e.original_path # worker[w].file
             /\ \A d \in disk' :
                   d.path = OutputPath(worker[w].file_hash, worker[w].media_type)
                   => \E e \in cache_entries' : e.cached_path = d.path]_vars

\* C12: when no entry recorded for hash h has an original path that exists on
\* disk, check_file_exists(h) returns false, leaves no entry with hash h and
\* adds none; so does a second call, which finds no entry for h
C12_StaleEntriesRemoved ==
    [][\A h \in Hashes :
          (/\ check_file_exists(h)
           /\ \A e \in cache_entries : e.file_hash = h => ~exists(e.original_path))
          => /\ last'.ret = <<FALSE>>
             /\ \A e \in cache_entries' : e.file_hash # h
             /\ cache_entries' \subseteq cache_entries]_vars

\* check_file_exists has returned false and deleted the entries of its hash
C12_Witness ==
    /\ last.op = "check_file_exists"
    /\ last.ret = <<FALSE>>
    /\ last.deleted > 0

\* C13: check_file_exists(h) returns true exactly when an entry with hash h has
\* an original path that exists on disk; when it returns true, and when no
\* entry has hash h, the store is unchanged; entries of other hashes stay
C13_ExistsIffOriginalOnDisk ==
    [][\A h \in Hashes :
          check_file_exists(h)
          => /\ last'.ret[1] <=>
                   \E e \in cache_entries : e.file_hash = h /\ exists(e.original_path)
             /\ (last'.ret[1] \/ ~\E e \in cache_entries : e.file_hash = h)
                   => /\ cache_entries' = cache_entries
                      /\ folder_rows' = folder_rows
                      /\ media_files' = media_files
             /\ \A e \in cache_entries : e.file_hash # h => e \in cache_entries']_vars

\* check_file_exists has returned true for a hash with two entries, one whose
\* original file is gone and one whose original file exists
C13_Witness ==
    /\ last.op = "check_file_exists"
    /\ last.ret = <<TRUE>>
    /\ \E e \in cache_entries : e.file_hash = last.arg[1] /\ ~exists(e.original_path)
    /\ \E e \in cache_entries : e.file_hash = last.arg[1] /\ exists(e.original_path)

\* the entry belongs to the folder registered under this path
OwnedBy(e, path) == \E r \in folder_rows : r.path = path /\ r.id = e.folder_id

\* C14: remove_library_folder(path) leaves no folder row for the path and none
\* of the entries the folder owned, returns exactly the (cached_path,
\* file_hash) pairs of those entries, and leaves the entries of every other
\* folder as they were
C14_RemoveFolderCascades ==
    [][\A f \in StoreFolders :
          unregister_library_folder(f)
          => /\ \A r \in folder_rows' : r.path # f
             /\ cache_entries' = {e \in cache_entries : ~OwnedBy(e, f)}
             /\ last'.ret[1] =
                   {<<e.cached_path, e.file_hash>> : e \in {x \in cache_entries : OwnedBy(x, f)}}]_vars

\* a folder that owned entries has been removed while another folder keeps its own
C14_Witness ==
    /\ last.op = "remove_library_folder"
    /\ last.deleted > 0
    /\ last.ret[1] # {}
    /\ cache_entries # {}

\* C15: clear_folder_cache(path) deletes exactly the entries the folder owns
\* and returns their (cached_path, file_hash) pairs; the folder rows with
\* their ids, the entries of other folders and the media records stay
C15_ClearFolderCacheFrame ==
    [][\A f \in StoreFolders :
          clear_folder_cache(f)
          => /\ cache_entries' = {e \in cache_entries : ~OwnedBy(e, f)}
             /\ last'.ret[1] =
                   {<<e.cached_path, e.file_hash>> : e \in {x \in cache_entries : OwnedBy(x, f)}}
             /\ folder_rows' = folder_rows
             /\ media_files' = media_files]_vars

\* a folder's cache has been cleared while entries of another folder and media
\* records exist
C15_Witness ==
    /\ last.op = "clear_folder_cache"
    /\ last.deleted > 0
    /\ cache_entries # {}
    /\ media_files # {}
    /\ get_folder_id(last.arg[1]) # 0

\* C16: after add_cache_entry(folder_id, ..., file_hash, ...) there is one entry
\* per (folder_id, file_hash); the same call made twice in a row leaves the
\* same entries as made once; the entries of other folders, the same hash
\* among them, stay as distinct entries
C16_AddCacheEntryIdempotent ==
    [][\A f \in StoreFolders, file \in StoreFiles :
          register_cache_entry(f, file.path, file.hash, CachedPath(file), media_type_of(file.path))
          => /\ \A a, b \in cache_entries' :
                   (a.folder_id = b.folder_id /\ a.file_hash = b.file_hash) => a = b
             /\ (last.op = "add_cache_entry" /\ last'.arg = last.arg)
                   => cache_entries' = cache_entries
             /\ \A e \in cache_entries : e.folder_id # last'.arg[1] => e \in cache_entries']_vars

C18_OneRowPerPath ==
    [][/\ \A a, b \in folder_rows' : a.path = b.path => a = b
       /\ \A f \in StoreFolders :
             register_library_folder(f)
             => /\ Cardinality({r \in folder_rows' : r.path = f}) = 1
                /\ \A r \in folder_rows' : r.path = f => r.id = last'.ret[1]]_vars

\* add_library_folder has replaced the row of a folder that owned entries
C18_Witness ==
    /\ last.op = "add_library_folder"
    /\ last.deleted > 0
    /\ get_folder_id(last.arg[1]) = last.ret[1]

\* C19: get_cached_path(h) returns a path exactly when an entry with hash h
\* exists, and then the cached_path of such an entry; else nothing
C19_CachedPathOfHash ==
    [][\A h \in Hashes :
          get_cached_file_path(h)
          => /\ last'.ret[1] # NoPath <=> \E e \in cache_entries : e.file_hash = h
             /\ last'.ret[1] # NoPath
                   => \E e \in cache_entries : e.file_hash = h /\ e.cached_path = last'.ret[1]]_vars

\* get_cached_path has returned a path for a hash that two folders hold with
\* different cached paths, while an entry of another hash exists
C19_Witness ==
    /\ last.op = "get_cached_path"
    /\ last.ret[1] # NoPath
    /\ \E a, b \in cache_entries :
          /\ a.file_hash = last.arg[1] /\ b.file_hash = last.arg[1]
          /\ a.folder_id # b.folder_id /\ a.cached_path # b.cached_path
    /\ \E e \in cache_entries : e.file_hash # last.arg[1]

\* C20: pause_task, resume_task and stop_task on a path without a registered
\* task return the task-not-found error and change neither the registry nor
\* any task
C20_NotFoundChangesNothing ==
    [][\A f \in Folders :
          (pause_task_not_found(f) \/ resume_task_not_found(f) \/ stop_task_not_found(f))
          => /\ last'.ret = <<"Task not found">>
             /\ registry' = registry
             /\ tasks' = tasks]_vars

\* a command has found no task for the path while a worker still holds the
\* task that was registered for it, with a file counted
C20_Witness ==
    /\ last.op \in {"pause_task", "resume_task", "stop_task"}
    /\ last.ret = <<"Task not found">>
    /\ registry[last.arg[1]] = 0
    /\ \E t \in LiveTasks : tasks[t].processed_files > 0

\* the task registered for a path, Dropped when there is none
registered(ts, reg, folder_path) ==
    IF reg[folder_path] # 0 THEN ts[reg[folder_path]] ELSE Dropped

\* C21: has_running_task(path) answers true exactly when a task is registered
\* for the path and its status is Running or Paused; false for a Stopped or
\* Completed task and for a path with no task
C21_HasRunningTask ==
    [][\A f \in Folders :
          check_folder_has_running_task(f) =>
              last'.ret = <<registered(tasks, registry, f).status \in {"Running", "Paused"}>>]_vars

\* the query has answered false for a path whose task is Stopped or Completed
C21_Witness ==
    /\ last.op = "has_running_task"
    /\ last.arg = <<"A">>
    /\ last.ret = <<FALSE>>
    /\ registered(tasks, registry, "A").status \in {"Stopped", "Completed"}

\* C22: the registry holds at most one task per path; creating a task for a
\* path replaces the task registered for it by a fresh one (Running, the given
\* total, counters at 0, flags clear) and leaves the tasks of other paths as
\* they were
C22_CreateReplaces ==
    [][\A f \in TaskFolders, n \in 1..MaxTotal :
          create_optimization_task(f, n) =>
              /\ registered(tasks', registry', f) = TaskNew(f, n)
              /\ \A g \in TaskFolders \ {f} :
                     registered(tasks', registry', g) = registered(tasks, registry, g)
              /\ \A g, h \in TaskFolders :
                     registry'[g] # 0 /\ registry'[g] = registry'[h] => g = h]_vars

\* a worker still holds the counted task of A that a fresh task has replaced
\* in the registry, while the task of the other path is stopped
C22_Witness ==
    /\ registered(tasks, registry, "A") \in {TaskNew("A", n) : n \in 1..MaxTotal}
    /\ \E t \in LiveTasks :
          /\ t # registry["A"]
          /\ tasks[t].folder_path = "A"
          /\ tasks[t].processed_files > 0
    /\ registered(tasks, registry, ImportFolder).status = "Stopped"

\* C23: a batch that returns has visited every media file of the folder,
\* whatever files failed to hash or to optimize: processed = total,
\* optimized + failed = total, and every file found has been attempted once
C23_BatchVisitsAll ==
    progress.pc = "returned" =>
        /\ progress.processed = progress.total
        /\ progress.optimized + progress.failed = progress.total
        /\ Len(progress.attempted) = progress.total
        /\ {progress.attempted[i][1] : i \in DOMAIN progress.attempted} = progress.found
        /\ Cardinality(progress.found) = progress.total

\* a batch has returned whose first file failed in optimize and whose second
\* file was optimized
C23_Witness ==
    /\ progress.pc = "returned"
    /\ Len(progress.attempted) = 2
    /\ progress.attempted[1][2] = "err"
    /\ progress.attempted[2][2] = "ok"

\* C24: import never overwrites a file that exists at the destination: a taken
\* name is replaced by the first free stem_k.ext, so no copy lands on an
\* existing file and the paths a call returns are all different
C24_ImportNeverOverwrites ==
    \A c \in Calls :
        /\ importing[c].overwritten = {}
        /\ \A i, j \in DOMAIN importing[c].imported_files :
               importing[c].imported_files[i] = importing[c].imported_files[j] => i = j

\* the copies of a content that import calls have made and that are on disk
imported_copies(file_hash) ==
    {d \in disk : /\ d.content = file_hash
                  /\ \E c \in Calls : \E i \in DOMAIN importing[c].imported_files :
                        importing[c].imported_files[i] = d.path}

\* C25: an import scan reports is_duplicate = false for a content no import
\* has copied yet, and true for a content that was imported into some folder
\* and whose imported copy is still on disk
C25_ScanReportsDuplicates ==
    [][\A source \in CardFiles :
          check_duplicate(source) =>
              /\ (\A c \in Calls : source.hash \notin importing[c].contents)
                    => last'.ret = <<FALSE>>
              /\ imported_copies(source.hash) # {} => last'.ret = <<TRUE>>]_vars

\* C26: a rescan of a folder deletes exactly the media records of that folder
\* whose files are no longer on disk; the records of files that are still in
\* the folder and the records of files outside the folder are kept
C26_RescanDeletesMissing ==
    [][\A f \in RescanFolders :
          rescan_library_folder(f) =>
              media_files' = {m \in media_files :
                                 ~(m.file_path.dir = f /\ ~exists(m.file_path))}]_vars

\* the pause flag of the task is set and its stop flag is not
PausedNotStopped(t) == t.should_pause /\ ~t.should_stop

\* the positions of a request after its pause check
PastGate ==
    {"lookup", "sc_get_task", "sc_inc", "sc_check", "tp_get_task", "tp_inc", "transform",
     "folder_id", "register", "fin_get_task", "fin_count", "wrap_get_task", "wrap_count"}

\* C27: a request that meets its folder's task paused stays at the pause check
\* - it counts nothing, starts no transform and writes no cache entry - until
\* resume or stop is called on the task; a request that has passed the check
\* never returns to it, whatever pause is issued afterwards
C27_PausedWorkerWaits ==
    [][/\ \A w \in Workers :
             /\ worker[w].pc = "gate" /\ PausedNotStopped(tasks[worker[w].task])
                   => /\ worker'[w] = worker[w]
                      /\ \/ PausedNotStopped(tasks'[worker[w].task])
                         \/ /\ ctl'.op \in {"resume", "stop"}
                            /\ ctl'.task = worker[w].task
             /\ worker[w].pc \in PastGate => worker'[w].pc \in PastGate \cup {"done"}]_vars

\* a request waits at the pause check of a task whose pause command has
\* returned, after an earlier request has optimized a file on the same task
C27_Witness ==
    \E w, v \in Workers :
        /\ worker[w].pc = "gate"
        /\ PausedNotStopped(tasks[worker[w].task])
        /\ tasks[worker[w].task].status = "Paused"
        /\ ctl.op = "none"
        /\ worker[v].pc = "done"
        /\ tasks[worker[w].task].optimized_files = 1

\* the results of a request whose transform failed
TransformErrors == {"TransformFailed", "UnsupportedMediaType"}

\* C28: a request whose transform fails while its folder's task is not stopped
\* returns the error, leaves no cache entry for its file, and has added
\* exactly one to processed_files and one to failed_files of the task and
\* nothing to optimized_files
C28_TransformFailureCounted ==
    [][\A w \in Workers :
          (/\ worker[w].pc # "done" /\ worker'[w].pc = "done"
           /\ worker'[w].result \in TransformErrors
           /\ registry[worker[w].folder_path] # 0
           /\ ~is_stopped(tasks[registry[worker[w].folder_path]]))
             => LET t == registry[worker[w].folder_path] IN
                /\ worker'[w].log = << <<"processed", t>>, <<"failed", t>> >>
                /\ tasks'[t].failed_files = tasks[t].failed_files + 1
                /\ tasks'[t].processed_files = SumCounted("processed", t)'
                /\ tasks'[t].optimized_files = tasks[t].optimized_files
                /\ ~\E e \in cache_entries' : e.original_path = worker[w].file]_vars

\* a request has returned the transform's error to a task that was never
\* stopped and has one processed and one failed file
C28_Witness ==
    \E w \in Workers :
        /\ worker[w].pc = "done" /\ worker[w].result \in TransformErrors
        /\ registry[worker[w].folder_path] # 0
        /\ LET t == tasks[registry[worker[w].folder_path]] IN
              /\ ~is_stopped(t)
              /\ t.processed_files = 1 /\ t.failed_files = 1 /\ t.optimized_files = 0
        /\ ~\E e \in cache_entries : e.original_path = worker[w].file

\* the changes of status a task may make
StatusChanges ==
    { <<"Running", "Paused">>, <<"Paused", "Running">>, <<"Running", "Stopped">>,
      <<"Paused", "Stopped">>, <<"Running", "Completed">> }

\* C29: every change of a task's status is Running->Paused, Paused->Running,
\* Running->Stopped, Paused->Stopped or Running->Completed; a paused task is
\* never completed by a request that finishes the last file
C29_StatusChanges ==
    [][\A t \in DOMAIN tasks :
          (tasks[t].status # "Dropped" /\ tasks'[t].status # "Dropped"
           /\ tasks'[t].status # tasks[t].status)
             => <<tasks[t].status, tasks'[t].status>> \in StatusChanges]_vars

\* C30: a derivative file is never written over for another content: two
\* hashes that share their first 16 characters never have cache entries
\* naming one derivative file, and a derivative on disk holds the output for
\* the hash of every entry that names it
C30_NoSharedDerivative ==
    /\ \A e, x \in cache_entries :
           e.cached_path = x.cached_path => e.file_hash = x.file_hash
    /\ \A e \in cache_entries : \A d \in disk :
           (d.path = e.cached_path /\ d.path.dir = "optimized")
              => d.content \in {e.file_hash, Partial}
\* the path lies under the cache folder (optimizer.rs writes below cache/optimized)
under_cache_folder(path) == path.dir = OutputPath(H1, "image").dir

\* the files a step takes off the disk
removed_from_disk == {d.path : d \in disk} \ {d.path : d \in disk'}

\* C31: unregister_library_folder and clear_folder_cache delete only files
\* under the cache folder, never a media file of the user, also when the
\* folder's entries were created by import or rescan
C31_OnlyDerivativesDeleted ==
    [][\A f \in StoreFolders :
          unregister_library_folder(f) \/ clear_folder_cache(f)
          => \A path \in removed_from_disk : under_cache_folder(path)]_vars

\* a call that registers the folder path f: the shell's addFolder, an import
\* into f, a rescan of f
registers(f) ==
    \/ register_library_folder(f)
    \/ rescan_library_folder(f)
    \/ \E source \in ImportSources : import_files(source, f, foreign_keys)

\* C32: registering a folder path that is already registered keeps the
\* folder's cache entries: every hash get_cached_path resolved before the call
\* resolves to the same path after it (entries whose original files are all
\* gone are left aside: check_file_exists deletes those during a rescan)
C32_ReRegisterKeepsEntries ==
    [][\A f \in StoreFolders :
          (get_folder_id(f) # 0 /\ registers(f))
          => \A h \in Hashes :
                (get_cached_path(h) # NoPath /\ found_existing(cache_entries, disk, h))
                   => get_cached_path(h)' = get_cached_path(h)]_vars

\* worker w sleeps in the pause loop on a task that is paused and not stopped
InPauseLoop(w) ==
    /\ worker[w].pc = "gate"
    /\ Waiting(tasks[worker[w].task])

\* the task worker w fetched is no longer the one registered for its folder:
\* it was removed, or replaced by a new task
Unregistered(w) == get_task(worker[w].folder_path) # worker[w].task

\* C33: a worker waiting in the pause loop stops waiting eventually once the
\* task it waits on has been removed from the registry or replaced by a new
\* task for the same folder
C33_UnregisteredWaitEnds ==
    \A w \in Workers : (InPauseLoop(w) /\ Unregistered(w)) ~> (worker[w].pc # "gate")

\* worker w is in the pause loop on a task whose stop flag has been raised
StoppedInLoop(w) ==
    /\ worker[w].pc = "gate"
    /\ is_stopped(tasks[worker[w].task])

\* C34: when stop is called on a task while a worker waits in the pause loop
\* for it, the worker eventually leaves the loop and aborts its file with the
\* task-stopped error; no resume is needed
C34_StopEndsWait ==
    \A w \in Workers :
        StoppedInLoop(w) ~> (worker[w].pc # "gate" /\ worker[w].result = "TaskStopped")

\* a worker is in the pause loop on a task that is paused and has just been
\* stopped, and no resume has cleared the pause flag
C34_Witness ==
    \E w \in Workers :
        /\ StoppedInLoop(w)
        /\ is_paused(tasks[worker[w].task])
        /\ worker[w].task \in stop_calls

\* C35: whenever no optimize request is in flight, the task of a folder has
\* processed_files = optimized_files + failed_files: every request that has
\* returned was counted as processed once and as one of optimized or failed
C35_CountersBalance ==
    AllReturned
       => \A f \in Folders :
             get_task(f) # 0
                => tasks[get_task(f)].processed_files
                      = tasks[get_task(f)].optimized_files + tasks[get_task(f)].failed_files

\* the tasks whose counters or status a step changes
Touched ==
    {t \in DOMAIN tasks : tasks'[t] # tasks[t] /\ tasks'[t].status # "Dropped"}

\* C36: a task counts only files whose request began after its creation: a
\* request that has counted its file on the task it started under changes
\* neither the counters nor the status of a task created later (tasks are
\* numbered in the order of their creation)
C36_NoCountOnReplacement ==
    [][\A w \in Workers :
          WorkerStep(w)
          => \A t \in Touched :
                \A i \in DOMAIN worker[w].log : worker[w].log[i][2] >= t]_vars

\* thread w waits for a mutex another thread holds
Blocked(w) ==
    \/ at_step(w) = "tasks.lock" /\ ~tasks_free
    \/ at_step(w) = "info.lock" /\ ~info_free(thread[w].local)

\* C37: no interleaving of add_task, remove_task, pause_task, resume_task,
\* stop_task, has_running_task, get_all_tasks and the workers' counter updates
\* deadlocks: a thread at the registry's lock() holds no guard at all (the
\* order is registry, then task), a thread at an info lock() holds no other
\* info guard, and while an operation is under way some thread can take its
\* next step
C37_NoDeadlock ==
    /\ \A w \in Workers :
           at_step(w) = "tasks.lock" => ~thread[w].tasks_guard /\ thread[w].info_guard = 0
    /\ \A w \in Workers : at_step(w) = "info.lock" => thread[w].info_guard = 0
    /\ (\E w \in Workers : thread[w].pc = "call")
          => \E w \in Workers : thread[w].pc = "call" /\ ~Blocked(w)

\* a thread holding the registry guard waits for the info lock of the task
\* while the other thread holds that lock for a counter update
C37_Witness ==
    \E w, v \in Workers :
        /\ thread[w].tasks_guard /\ at_step(w) = "info.lock" /\ Blocked(w)
        /\ thread[v].op = "increment_processed" /\ thread[v].info_guard = thread[w].local

\* no thread is inside pause_task or resume_task
NoPauseOrResume == \A w \in Workers : thread[w].op \notin {"pause_task", "resume_task"}

\* C38: for a task that has never been stopped and is not Completed, whenever
\* no pause or resume call is executing, the status is Paused exactly when the
\* pause flag is set and Running exactly when it is clear, whatever the
\* interleaving of concurrent pause_task and resume_task calls
C38_StatusMatchesFlag ==
    NoPauseOrResume
       => \A t \in DOMAIN tasks :
             (~is_stopped(tasks[t]) /\ tasks[t].status # "Completed")
                => /\ tasks[t].status = "Paused" <=> is_paused(tasks[t])
                   /\ tasks[t].status = "Running" <=> ~is_paused(tasks[t])

\* both threads have made calls, none is inside pause_task or resume_task, and
\* the registered task, never stopped, is paused
C38_Witness ==
    /\ NoPauseOrResume
    /\ \A w \in Workers : thread[w].left = 0
    /\ get_task("A") # 0
    /\ ~is_stopped(tasks[get_task("A")])
    /\ is_paused(tasks[get_task("A")])
    /\ tasks[get_task("A")].status = "Paused"

\* the request of worker w is in flight
InFlight(w) == worker[w].pc \notin {"idle", "done"}

\* C39: while two requests for the same content hash are in flight together,
\* the transform has been invoked at most once for the hash, and the two are
\* never both inside the transform, writing the derivative of the hash
C39_OneTransformPerHash ==
    \A w \in Workers : \A v \in Workers \ {w} :
        (InFlight(w) /\ InFlight(v) /\ worker[w].file_hash = worker[v].file_hash)
           => /\ worker[w].transforms + worker[v].transforms <= 1
              /\ ~(worker[w].pc = "transform" /\ worker[v].pc = "transform")

\* C40: after unregister_library_folder or clear_folder_cache, every cache
\* entry that remains in the store still has its derivative file on disk if
\* it had one before: a derivative two folders' entries share is not deleted
\* while one of them references it
C40_SharedDerivativeKept ==
    [][\A f \in StoreFolders :
          unregister_library_folder(f) \/ clear_folder_cache(f)
          => \A e \in cache_entries' :
                (under_cache_folder(e.cached_path) /\ exists(e.cached_path))
                   => exists(e.cached_path)']_vars

====
